---------------------------- MODULE Spec2Model ----------------------------
(***************************************************************************)
(* The analytical pipeline of the county-health dashboard: field           *)
(* standardization, aggregation, region mapping, health burden index,      *)
(* projection and clustering (data-loader and data-processing).            *)
(*                                                                         *)
(* JavaScript values are records [t, n, s]: t is the type tag, n the       *)
(* numeric value and s the characters of a string.  A number is kept in    *)
(* decimal fixed point, Scale units per 1; a division rounds toward zero   *)
(* to that grid, the way a double rounds to its own.  A string is the      *)
(* sequence of its characters, so that padding, substring, parsing and     *)
(* formatting are computed character by character.                         *)
(***************************************************************************)
EXTENDS Integers, Sequences, FiniteSets, TLC

VARIABLES
    aggregationLevel,   \* "county" | "state" | "region", the level requested
    given,              \* the rows as the caller built them (never written)
    preloadedData,      \* the caller's row objects, as the run leaves them
    pc,                 \* "ready" | "returned" | "thrown"
    call,               \* the arguments of a direct call of one function
    entry,              \* which entry point ran
    result,             \* what the run returned, or the error it threw
    locals,             \* the local variables of a function that runs in steps
    dashboard,          \* the state the Dashboard component holds
    inflight            \* the requests the dashboard awaits an answer to

vars == <<aggregationLevel, given, preloadedData, pc, call, entry, result, locals, dashboard, inflight>>

---------------------------------------------------------------------------
(* Bounds of the model *)

\* decimal digits a number keeps after the point
Digits == 3
\* rows in one input array
MaxRows == 3

Scale == 10 ^ Digits

---------------------------------------------------------------------------
(* JavaScript values *)

Undefined == [t |-> "undefined", n |-> 0, s |-> <<>>]
Null == [t |-> "null", n |-> 0, s |-> <<>>]
NaN == [t |-> "nan", n |-> 0, s |-> <<>>]
\* an inherited method such as Object.prototype.toString
FunctionObject == [t |-> "function", n |-> 0, s |-> <<>>]
Num(k) == [t |-> "number", n |-> k, s |-> <<>>]
Str(cs) == [t |-> "string", n |-> 0, s |-> cs]
\* the number i + m/1000, e.g. Dec(0, 300) is 0.3
Dec(i, m) == Num(i * Scale + (m * Scale) \div 1000)
EmptyString == Str(<<>>)

DigitChars == <<"0", "1", "2", "3", "4", "5", "6", "7", "8", "9">>
IsDigit(c) == \E i \in 1..10 : DigitChars[i] = c
DigitVal(c) == (CHOOSE i \in 1..10 : DigitChars[i] = c) - 1
IsSpace(c) == c = " "

RECURSIVE IntDigits(_)
IntDigits(k) ==
    IF k < 10 THEN <<DigitChars[k + 1]>>
    ELSE IntDigits(k \div 10) \o <<DigitChars[(k % 10) + 1]>>

RECURSIVE FracDigits(_, _)
FracDigits(f, k) ==
    IF k = 0 THEN <<>>
    ELSE FracDigits(f \div 10, k - 1) \o <<DigitChars[(f % 10) + 1]>>

RECURSIVE StripZeros(_)
StripZeros(cs) ==
    IF cs # <<>> /\ cs[Len(cs)] = "0" THEN StripZeros(SubSeq(cs, 1, Len(cs) - 1))
    ELSE cs

Abs(k) == IF k < 0 THEN -k ELSE k

\* Number.prototype.toString of a finite number: shortest decimal form
NumberToString(k) ==
    LET a == Abs(k)
        frac == StripZeros(FracDigits(a % Scale, Digits))
    IN  (IF k < 0 THEN <<"-">> ELSE <<>>)
        \o IntDigits(a \div Scale)
        \o (IF frac = <<>> THEN <<>> ELSE <<".">> \o frac)

\* String(v)
JsString(v) ==
    CASE v.t = "string" -> v.s
      [] v.t = "number" -> NumberToString(v.n)
      [] v.t = "nan" -> <<"N", "a", "N">>
      [] v.t = "null" -> <<"n", "u", "l", "l">>
      [] v.t = "undefined" -> <<"u", "n", "d", "e", "f", "i", "n", "e", "d">>
      [] OTHER -> <<"f", "u", "n", "c", "t", "i", "o", "n">>

RECURSIVE TakeDigits(_)
TakeDigits(cs) ==
    IF cs # <<>> /\ IsDigit(cs[1]) THEN <<cs[1]>> \o TakeDigits(Tail(cs)) ELSE <<>>

RECURSIVE TrimLeft(_)
TrimLeft(cs) == IF cs # <<>> /\ IsSpace(cs[1]) THEN TrimLeft(Tail(cs)) ELSE cs

RECURSIVE TrimRight(_)
TrimRight(cs) ==
    IF cs # <<>> /\ IsSpace(cs[Len(cs)]) THEN TrimRight(SubSeq(cs, 1, Len(cs) - 1))
    ELSE cs

RECURSIVE DigitsValue(_)
DigitsValue(ds) ==
    IF ds = <<>> THEN 0
    ELSE 10 * DigitsValue(SubSeq(ds, 1, Len(ds) - 1)) + DigitVal(ds[Len(ds)])

\* the first k fraction digits as a count of 1/10^k
RECURSIVE FracValue(_, _)
FracValue(ds, k) ==
    IF k = 0 THEN 0
    ELSE (IF ds = <<>> THEN 0 ELSE DigitVal(ds[1]) * 10 ^ (k - 1))
         + FracValue(IF ds = <<>> THEN <<>> ELSE Tail(ds), k - 1)

Drop(cs, k) == SubSeq(cs, k + 1, Len(cs))

\* The longest prefix of cs that is a decimal literal ([+-] digits [. digits]):
\* ok says whether there is one, n is its value, rest is what follows it.
Scanned(negative, ip, fp, rest) ==
    [ok |-> ip # <<>> \/ fp # <<>>,
     n |-> IF negative THEN -(DigitsValue(ip) * Scale + FracValue(fp, Digits))
           ELSE DigitsValue(ip) * Scale + FracValue(fp, Digits),
     rest |-> rest]

\* "1." and ".5" are literals; a "." with no digit on either side is not read
ScanFraction(negative, ip, fp, afterInt) ==
    IF ip # <<>> \/ fp # <<>>
    THEN Scanned(negative, ip, fp, Drop(afterInt, 1 + Len(fp)))
    ELSE Scanned(negative, ip, fp, afterInt)

ScanPoint(negative, ip, afterInt) ==
    IF afterInt # <<>> /\ afterInt[1] = "."
    THEN ScanFraction(negative, ip, TakeDigits(Tail(afterInt)), afterInt)
    ELSE Scanned(negative, ip, <<>>, afterInt)

ScanInteger(negative, ip, body) == ScanPoint(negative, ip, Drop(body, Len(ip)))

ScanDecimal(cs) ==
    IF cs # <<>> /\ cs[1] \in {"-", "+"}
    THEN ScanInteger(cs[1] = "-", TakeDigits(Tail(cs)), Tail(cs))
    ELSE ScanInteger(FALSE, TakeDigits(cs), cs)

FullMatch(d) == IF d.ok /\ d.rest = <<>> THEN Num(d.n) ELSE NaN
Prefix(d) == IF d.ok THEN Num(d.n) ELSE NaN

\* StringToNumber of trimmed text
WholeLiteral(cs) == IF cs = <<>> THEN Num(0) ELSE FullMatch(ScanDecimal(cs))

\* Number(v): the whole text must be a literal; "" and blanks give 0
ToNumber(v) ==
    CASE v.t = "number" -> v
      [] v.t = "nan" -> NaN
      [] v.t = "null" -> Num(0)
      [] v.t = "string" -> WholeLiteral(TrimRight(TrimLeft(v.s)))
      [] OTHER -> NaN

\* Number.parseFloat(v): the longest numeric prefix of String(v)
ParseFloat(v) ==
    IF v.t = "number" THEN v ELSE Prefix(ScanDecimal(TrimLeft(JsString(v))))

\* isNaN(v)
IsNaN(v) == ToNumber(v).t = "nan"

\* ToBoolean: what `if (v)`, `!v`, `a || b`, `a && b` test
Truthy(v) ==
    CASE v.t = "undefined" -> FALSE
      [] v.t = "null" -> FALSE
      [] v.t = "nan" -> FALSE
      [] v.t = "number" -> v.n # 0
      [] v.t = "string" -> v.s # <<>>
      [] OTHER -> TRUE

\* a || b
Or(a, b) == IF Truthy(a) THEN a ELSE b
\* a && b
And(a, b) == IF Truthy(a) THEN b ELSE a

\* a + b: concatenation as soon as one side is a string
Plus(a, b) ==
    IF a.t = "string" \/ b.t = "string" THEN Str(JsString(a) \o JsString(b))
    ELSE LET x == ToNumber(a)
             y == ToNumber(b)
         IN  IF x.t = "nan" \/ y.t = "nan" THEN NaN ELSE Num(x.n + y.n)

\* integer quotient rounded toward zero
Quot(a, b) == IF (a < 0) = (b < 0) THEN Abs(a) \div Abs(b) ELSE -(Abs(a) \div Abs(b))

\* a / k for a count k > 0
DivideBy(a, k) ==
    LET x == ToNumber(a)
    IN  IF x.t = "nan" THEN NaN ELSE Num(Quot(x.n, k))

\* a >= lo && a <= hi on numbers lo, hi
Between(a, lo, hi) ==
    LET x == ToNumber(a)
    IN  x.t = "number" /\ x.n >= lo /\ x.n <= hi

\* padding on the wrong side: String.prototype.padEnd(width, "0")
RECURSIVE PadEnd(_, _)
PadEnd(cs, width) == IF Len(cs) >= width THEN cs ELSE PadEnd(cs \o <<"0">>, width)

\* String.prototype.padStart(width, "0")
RECURSIVE PadStart(_, _)
PadStart(cs, width) == IF Len(cs) >= width THEN cs ELSE PadStart(<<"0">> \o cs, width)

\* String.prototype.substring(0, k)
Substring0(cs, k) == SubSeq(cs, 1, IF Len(cs) < k THEN Len(cs) ELSE k)

---------------------------------------------------------------------------
(* Rows: a row object is a function from its own field names to values *)

Get(row, k) == IF k \in DOMAIN row THEN row[k] ELSE Undefined
Put(row, k, v) == [x \in DOMAIN row \cup {k} |-> IF x = k THEN v ELSE row[x]]
MapRows(rows, F(_)) == [i \in 1..Len(rows) |-> F(rows[i])]

\* names a plain object literal inherits from Object.prototype
ObjectPrototypeKeys ==
    { <<"c", "o", "n", "s", "t", "r", "u", "c", "t", "o", "r">>,
      <<"t", "o", "S", "t", "r", "i", "n", "g">>,
      <<"v", "a", "l", "u", "e", "O", "f">> }

---------------------------------------------------------------------------
(* data-loader: fetchAndProcessData *)

\* rows up to which stratifiedSampling returns its input as it is
SampleThreshold == 3000

\* data.map((row) => { if (row.FIPS !== undefined) row.FIPS = ...; return row })
\* writes the row objects the caller passed in
PadFipsInPlace(row) ==
    IF Get(row, "FIPS") # Undefined
    THEN Put(row, "FIPS", Str(PadStart(JsString(Get(row, "FIPS")), 5)))
    ELSE row

\* stratifiedSampling: an array of at most SampleThreshold rows is returned whole
StratifiedSampling(data, level, maxRows) == data

---------------------------------------------------------------------------
(* data-loader: processData, field standardization *)

IdentityFields == {"FIPS", "Name", "State Abbreviation"}

\* numeric coercion of one row
CoerceRow(row) ==
    [k \in DOMAIN row |->
        IF /\ k \notin IdentityFields
           /\ row[k] # Undefined
           /\ row[k] # Null
           /\ row[k] # EmptyString
        THEN LET numValue == ParseFloat(row[k])
             IN  IF numValue.t # "nan" THEN numValue ELSE row[k]
        ELSE row[k]]

\* the filter's test of one coerced row
KeepRow(row, level) ==
    IF level = "county"
    THEN Truthy(And(Get(row, "FIPS"),
                And(Or(Or(Get(row, "Name"), Get(row, "County")), Get(row, "county")),
                    Or(Or(Get(row, "State Abbreviation"), Get(row, "State")),
                       Get(row, "state")))))
    ELSE Truthy(Or(Or(Get(row, "State Abbreviation"), Get(row, "State")),
                   Get(row, "state")))

FilterRows(rows, level) ==
    LET Keep(row) == KeepRow(row, level)
    IN  SelectSeq(rows, Keep)

StandardizeFips(row) ==
    LET alias == Or(Get(row, "fips"), Get(row, "FIPS Code"))
        r1 == IF ~Truthy(Get(row, "FIPS")) /\ Truthy(alias)
              THEN Put(row, "FIPS", alias) ELSE row
    IN  IF Truthy(Get(r1, "FIPS"))
        THEN Put(r1, "FIPS", Str(PadStart(JsString(Get(r1, "FIPS")), 5)))
        ELSE r1

StandardizeName(row) ==
    LET alias == Or(Or(Get(row, "County"), Get(row, "county")), Get(row, "NAME"))
    IN  IF ~Truthy(Get(row, "Name")) /\ Truthy(alias)
        THEN Put(row, "Name", alias) ELSE row

StandardizeState(row) ==
    LET alias == Or(Get(row, "State"), Get(row, "state"))
    IN  IF ~Truthy(Get(row, "State Abbreviation")) /\ Truthy(alias)
        THEN Put(row, "State Abbreviation", alias) ELSE row

StandardizeRow(row) == StandardizeState(StandardizeName(StandardizeFips(row)))

\* processedRawData -> filteredData -> standardizedData
StandardizeFields(rawData, level) ==
    MapRows(FilterRows(MapRows(rawData, CoerceRow), level), StandardizeRow)

---------------------------------------------------------------------------
(* Region mapper *)

NortheastStates ==
    {<<"C", "T">>, <<"M", "E">>, <<"M", "A">>, <<"N", "H">>, <<"R", "I">>, <<"V", "T">>,
      <<"N", "J">>, <<"N", "Y">>, <<"P", "A">> }

MidwestStates ==
    {<<"I", "L">>, <<"I", "N">>, <<"M", "I">>, <<"O", "H">>, <<"W", "I">>, <<"I", "A">>,
      <<"K", "S">>, <<"M", "N">>, <<"M", "O">>, <<"N", "E">>, <<"N", "D">>, <<"S", "D">> }

SouthStates ==
    {<<"D", "E">>, <<"F", "L">>, <<"G", "A">>, <<"M", "D">>, <<"N", "C">>, <<"S", "C">>,
      <<"V", "A">>, <<"W", "V">>, <<"A", "L">>, <<"K", "Y">>, <<"M", "S">>, <<"T", "N">>,
      <<"A", "R">>, <<"L", "A">>, <<"O", "K">>, <<"T", "X">>, <<"D", "C">> }

WestStates ==
    {<<"A", "Z">>, <<"C", "O">>, <<"I", "D">>, <<"M", "T">>, <<"N", "V">>, <<"N", "M">>,
      <<"U", "T">>, <<"W", "Y">>, <<"A", "K">>, <<"C", "A">>, <<"H", "I">>, <<"O", "R">>,
      <<"W", "A">> }

Northeast == Str(<<"N", "o", "r", "t", "h", "e", "a", "s", "t">>)
Midwest == Str(<<"M", "i", "d", "w", "e", "s", "t">>)
South == Str(<<"S", "o", "u", "t", "h">>)
West == Str(<<"W", "e", "s", "t">>)
Unknown == Str(<<"U", "n", "k", "n", "o", "w", "n">>)

\* regions[name]: the table's own entries, then what the object literal inherits
RegionsLookup(name) ==
    CASE name \in NortheastStates -> Northeast
      [] name \in MidwestStates -> Midwest
      [] name \in SouthStates -> South
      [] name \in WestStates -> West
      [] name \in ObjectPrototypeKeys -> FunctionObject
      [] OTHER -> Undefined

\* regions[stateAbbr] || "Unknown"
getRegionFromState(stateAbbr) == Or(RegionsLookup(JsString(stateAbbr)), Unknown)

---------------------------------------------------------------------------
(* Aggregator *)

importantMetrics ==
    <<"Adult Obesity raw value",
      "Food Insecurity raw value",
      "Physical Inactivity raw value",
      "Poor or Fair Health raw value",
      "Median Household Income raw value",
      "Children in Poverty raw value",
      "Life Expectancy raw value",
      "Adult Smoking raw value",
      "Uninsured raw value",
      "Mental Health Providers raw value",
      "Unemployment raw value",
      "Income Inequality raw value",
      "Air Pollution - Particulate Matter raw value",
      "Severe Housing Problems raw value",
      "Insufficient Sleep raw value",
      "Broadband Access raw value",
      "Premature Death raw value",
      "Low Birthweight raw value",
      "Access to Exercise Opportunities raw value",
      "Primary Care Physicians raw value",
      "Food Environment Index raw value",
      "Dentists raw value",
      "Preventable Hospital Stays raw value",
      "Mammography Screening raw value",
      "Flu Vaccinations raw value",
      "High School Completion raw value",
      "Children in Single-Parent Households raw value",
      "Injury Deaths raw value",
      "Driving Alone to Work raw value",
      "Long Commute - Driving Alone raw value",
      "Voter Turnout raw value">>

healthMetrics ==
    <<"Adult Obesity raw value",
      "Food Insecurity raw value",
      "Physical Inactivity raw value",
      "Poor or Fair Health raw value">>

\* the property names of `groups` in insertion order: String(key) of every row
\* whose key is truthy, first occurrence first
RECURSIVE GroupKeys(_, _, _)
GroupKeys(data, field, seen) ==
    IF data = <<>> THEN seen
    ELSE LET key == Get(data[1], field)
             name == JsString(key)
         IN  GroupKeys(Tail(data), field,
                 IF Truthy(key) /\ \A i \in 1..Len(seen) : seen[i] # name
                 THEN Append(seen, name) ELSE seen)

\* a property name that is a canonical array index (an integer below 2^32 - 1)
DigitsBelow(a, b) ==
    \E i \in 1..Len(a) :
        /\ DigitVal(a[i]) < DigitVal(b[i])
        /\ \A j \in 1..(i - 1) : a[j] = b[j]

IndexBelow(a, b) == Len(a) < Len(b) \/ (Len(a) = Len(b) /\ DigitsBelow(a, b))

IsArrayIndex(name) ==
    /\ name # <<>>
    /\ \A i \in 1..Len(name) : IsDigit(name[i])
    /\ (Len(name) = 1 \/ name[1] # "0")
    /\ IndexBelow(name, <<"4", "2", "9", "4", "9", "6", "7", "2", "9", "5">>)

\* Object.entries(groups): array-index names in ascending order, then the
\* other names in insertion order
EntriesOrder(names) ==
    LET IsIndex(n) == IsArrayIndex(n)
        IsName(n) == ~IsArrayIndex(n)
        indices == SelectSeq(names, IsIndex)
        Rank(i) == 1 + Cardinality({j \in 1..Len(indices) : IndexBelow(indices[j], indices[i])})
    IN  [r \in 1..Len(indices) |-> indices[CHOOSE i \in 1..Len(indices) : Rank(i) = r]]
        \o SelectSeq(names, IsName)

\* groups[key]: the rows pushed under one property name
GroupRows(data, field, name) ==
    LET Member(row) == Truthy(Get(row, field)) /\ JsString(Get(row, field)) = name
    IN  SelectSeq(data, Member)

\* `!groups[key]` is false for a name the empty object inherits, and the
\* inherited value has no push method: groups[key].push(row) raises a TypeError
GroupingThrows(data, field) ==
    \E i \in 1..Len(data) :
        /\ Truthy(Get(data[i], field))
        /\ JsString(Get(data[i], field)) \in ObjectPrototypeKeys

\* the values of one metric that pass the filter, as numbers
MetricValues(rows, metric) ==
    LET Numeric(row) ==
            LET v == Get(row, metric)
            IN  v # Undefined /\ v # Null /\ ~IsNaN(v)
        kept == SelectSeq(rows, Numeric)
    IN  [i \in 1..Len(kept) |-> ToNumber(Get(kept[i], metric)).n]

RECURSIVE SumSeq(_)
SumSeq(xs) == IF xs = <<>> THEN 0 ELSE xs[1] + SumSeq(Tail(xs))

\* the division by values.length left out
SumOf(values) == Num(SumSeq(values))

\* values.reduce((sum, val) => sum + val, 0) / values.length
MeanOf(values) == Num(Quot(SumSeq(values), Len(values)))

\* the metrics.forEach loop: a metric with no value that passes is left out
RECURSIVE AggregateMetrics(_, _, _)
AggregateMetrics(rec, rows, metrics) ==
    IF metrics = <<>> THEN rec
    ELSE LET values == MetricValues(rows, metrics[1])
         IN  AggregateMetrics(
                 IF Len(values) > 0 THEN Put(rec, metrics[1], MeanOf(values)) ELSE rec,
                 rows, Tail(metrics))

\* rows.find((r) => r[field])?.[field]
FirstTruthy(rows, field) ==
    IF \E i \in 1..Len(rows) : Truthy(Get(rows[i], field))
    THEN Get(rows[CHOOSE i \in 1..Len(rows) :
                    /\ Truthy(Get(rows[i], field))
                    /\ \A j \in 1..(i - 1) : ~Truthy(Get(rows[j], field))], field)
    ELSE Undefined

\* the representative FIPS and the Name of a state-level record
StateIdentity(rec, rows, name) ==
    LET stateFips == FirstTruthy(rows, "FIPS")
        r1 == IF Truthy(stateFips)
              THEN Put(rec, "FIPS", Str(PadStart(Substring0(JsString(stateFips), 2), 2)))
              ELSE rec
    IN  IF Truthy(FirstTruthy(rows, "Name")) THEN Put(r1, "Name", Str(name)) ELSE r1

\* the aggregated record of one group
AggregateGroup(data, field, metrics, name) ==
    LET rows == GroupRows(data, field, name)
        r0 == (field :> Str(name))
        r1 == AggregateMetrics(r0, rows, metrics)
        r2 == Put(r1, field \o "Count", Num(Len(rows) * Scale))
    IN  IF field = "State Abbreviation" THEN StateIdentity(r2, rows, name) ELSE r2

\* aggregateByField (data-loader), for data on which the grouping does not throw
aggregateByField(data, field, metrics) ==
    LET names == EntriesOrder(GroupKeys(data, field, <<>>))
    IN  [i \in 1..Len(names) |-> AggregateGroup(data, field, metrics, names[i])]

\* standardizedData.map((d) => ({ ...d, Region: getRegionFromState(...) }))
WithRegions(data) ==
    LET AddRegion(d) == Put(d, "Region", getRegionFromState(Get(d, "State Abbreviation")))
    IN  MapRows(data, AddRegion)

GroupingField(level) == IF level = "state" THEN "State Abbreviation" ELSE "Region"

\* the rows handed to aggregateByField at a level other than county
AggregationInput(standardizedData, level) ==
    IF level = "state" THEN standardizedData ELSE WithRegions(standardizedData)

\* processedData of processData (data-loader)
ProcessedData(standardizedData, level) ==
    IF level = "county" THEN standardizedData
    ELSE aggregateByField(AggregationInput(standardizedData, level),
                          GroupingField(level), importantMetrics)

---------------------------------------------------------------------------
(* Health burden index and available metrics *)

EntityId(entity, level) ==
    IF level = "county" THEN Get(entity, "FIPS")
    ELSE IF level = "state" THEN Get(entity, "State Abbreviation")
    ELSE Get(entity, "Region")

\* one pass of healthMetrics.forEach: acc is [sum, count]
BurdenStep(acc, v) ==
    IF v # Undefined /\ ~IsNaN(v)
    THEN [sum |-> IF Between(v, 0, Scale) THEN Plus(acc.sum, v)
                  ELSE Plus(acc.sum, Dec(0, 500)),
          count |-> acc.count + 1]
    ELSE acc

RECURSIVE BurdenFold(_, _, _)
BurdenFold(entity, metrics, acc) ==
    IF metrics = <<>> THEN acc
    ELSE BurdenFold(entity, Tail(metrics), BurdenStep(acc, Get(entity, metrics[1])))

\* count > 0 ? sum / count : 0.5
EntityBurden(entity) ==
    LET acc == BurdenFold(entity, healthMetrics, [sum |-> Num(0), count |-> 0])
    IN  IF acc.count > 0 THEN DivideBy(acc.sum, acc.count) ELSE Dec(0, 500)

\* healthBurdenIndex: property name -> value, a later entity replacing an earlier
RECURSIVE BurdenIndex(_, _, _)
BurdenIndex(entities, level, index) ==
    IF entities = <<>> THEN index
    ELSE LET id == EntityId(entities[1], level)
         IN  BurdenIndex(Tail(entities), level,
                 IF Truthy(id) THEN Put(index, JsString(id), EntityBurden(entities[1]))
                 ELSE index)

\* importantMetrics.filter((metric) => processedData.some(...))
AvailableMetrics(processedData) ==
    LET HasData(metric) ==
            \E i \in 1..Len(processedData) :
                /\ Get(processedData[i], metric) # Undefined
                /\ Get(processedData[i], metric) # Null
    IN  SelectSeq(importantMetrics, HasData)

Min(a, b) == IF a < b THEN a ELSE b

---------------------------------------------------------------------------
(* data-processing: projection and clustering *)

\* Math.random(): the run draws from a stream that repeats; draw j of stream rnd
Draw(rnd, j) == rnd[((j - 1) % Len(rnd)) + 1]

\* arithmetic on numbers that may be NaN (undefined operands give NaN)
NSub(a, b) == IF a.t # "number" \/ b.t # "number" THEN NaN ELSE Num(a.n - b.n)
NAdd(a, b) == IF a.t # "number" \/ b.t # "number" THEN NaN ELSE Num(a.n + b.n)
NMul(a, b) == IF a.t # "number" \/ b.t # "number" THEN NaN ELSE Num(Quot(a.n * b.n, Scale))
NDiv(a, k) == IF a.t # "number" THEN NaN ELSE Num(Quot(a.n, k))

\* the largest r with r * r <= x, by bisection on lo..hi
RECURSIVE IsqrtIn(_, _, _)
IsqrtIn(lo, hi, x) ==
    IF lo >= hi THEN lo
    ELSE LET Half(mid) ==
                 IF mid * mid <= x THEN IsqrtIn(mid, hi, x) ELSE IsqrtIn(lo, mid - 1, x)
         IN  CHOOSE r \in {Half(mid) : mid \in {(lo + hi + 1) \div 2}} : TRUE

\* Math.sqrt of a number x >= 0
Sqrt(x) == IsqrtIn(0, Min(x * Scale, 46340), x * Scale)

\* numericData: typeof val === "number" ? val : 0
NumericRow(d, features) ==
    [j \in 1..Len(features) |->
        IF Get(d, features[j]).t = "number" THEN Get(d, features[j]).n ELSE 0]

\* A double is a significand of 53 bits and an exponent, and every operation
\* rounds its result to the nearest double.  The model keeps a significand m
\* of Precision decimal digits and an exponent e, the value being m * 10^e.
Precision == Digits - 1

\* the weight of the last digit kept of a magnitude a
RECURSIVE Ulp(_, _)
Ulp(a, p) == IF a < p * 10 ^ Precision THEN p ELSE Ulp(a, p * 10)

\* a magnitude rounded to a multiple of p, ties to even
RoundTo(a, p) ==
    IF 2 * (a % p) > p \/ (2 * (a % p) = p /\ (a \div p) % 2 = 1)
    THEN ((a \div p) + 1) * p
    ELSE (a \div p) * p

\* an integer rounded to Precision significant digits
Fl(x) == IF x < 0 THEN -RoundTo(-x, Ulp(-x, 1)) ELSE RoundTo(x, Ulp(x, 1))

\* one representation per value: no trailing zero in the significand
RECURSIVE Canon(_, _)
Canon(m, e) ==
    IF m = 0 THEN [m |-> 0, e |-> 0]
    ELSE IF m % 10 = 0 THEN Canon(m \div 10, e + 1)
    ELSE [m |-> m, e |-> e]

\* the double nearest to m * 10^e
Float(m, e) == Canon(Fl(m), e)

\* a number of the grid, and a count, as doubles
FromNumber(n) == Float(n, -Digits)
FromCount(k) == Float(k, 0)

\* a double as a number of the grid, rounded toward zero
OnGrid(a) ==
    IF a.e + Digits >= 0 THEN a.m * 10 ^ (a.e + Digits)
    ELSE Quot(a.m, 10 ^ (-(a.e + Digits)))

\* a + b: an operand below the last digit of the other leaves it unchanged
FlAdd(a, b) ==
    IF b.m = 0 \/ (a.m # 0 /\ a.e - b.e > 2 * Precision) THEN a
    ELSE IF a.m = 0 \/ b.e - a.e > 2 * Precision THEN b
    ELSE Float(a.m * 10 ^ (a.e - Min(a.e, b.e)) + b.m * 10 ^ (b.e - Min(a.e, b.e)),
               Min(a.e, b.e))

FlSub(a, b) == FlAdd(a, [m |-> -b.m, e |-> b.e])

FlMul(a, b) == Float(a.m * b.m, a.e + b.e)

\* a / b for b # 0
FlDiv(a, b) == Float(Quot(a.m * 10 ^ (Precision + 3), b.m), a.e - b.e - (Precision + 3))

\* the significand widened by hundreds until its root has digits to spare
RECURSIVE Widened(_, _)
Widened(m, e) ==
    IF m >= 10 ^ (Precision + 3) THEN [m |-> m, e |-> e] ELSE Widened(m * 100, e - 2)

RootOf(w) == Float(IsqrtIn(0, 46340, w.m), w.e \div 2)

\* Math.sqrt(a) for a >= 0
FlSqrt(a) ==
    IF a.m = 0 THEN a
    ELSE IF a.e % 2 = 1 THEN RootOf(Widened(a.m * 10, a.e - 1))
    ELSE RootOf(Widened(a.m, a.e))

\* sum += xs[i], for i from the first element on
RECURSIVE Accumulate(_, _, _)
Accumulate(xs, i, sum) ==
    IF i > Len(xs) THEN sum ELSE Accumulate(xs, i + 1, FlAdd(sum, xs[i]))

Column(data, j) == [i \in 1..Len(data) |-> FromNumber(data[i][j])]

\* means[j] += data[i][j] over the rows, then means[j] /= numSamples
ColumnMean(data, j) == FlDiv(Accumulate(Column(data, j), 1, FromCount(0)), FromCount(Len(data)))

\* stds[j] += Math.pow(data[i][j] - means[j], 2) over the rows
SquaredDeviations(column, mean) ==
    [i \in 1..Len(column) |-> FlMul(FlSub(column[i], mean), FlSub(column[i], mean))]

\* Math.sqrt(stds[j] / numSamples)
RootMeanSquare(squares) ==
    FlSqrt(FlDiv(Accumulate(squares, 1, FromCount(0)), FromCount(Len(squares))))

\* if (stds[j] === 0) stds[j] = 1
StdOrOne(std) == IF std.m = 0 THEN FromCount(1) ELSE std

ColumnStd(data, j) ==
    StdOrOne(RootMeanSquare(SquaredDeviations(Column(data, j), ColumnMean(data, j))))

\* standardizeData, for a matrix with at least one row (data[0] is read)
standardizeData(data) ==
    [i \in 1..Len(data) |->
        [j \in 1..Len(data[1]) |->
            OnGrid(FlDiv(FlSub(FromNumber(data[i][j]), ColumnMean(data, j)),
                         ColumnStd(data, j)))]]

\* row[j] of a standardized row: undefined beyond its length
Cell(row, j) == IF j <= Len(row) THEN Num(row[j]) ELSE Undefined

\* (Math.random() - 0.5) * 0.5
Jitter(r) == NMul(Num(r - Dec(0, 500).n), Dec(0, 500))

\* the index counted from 1 instead of 0
simplePCAOneBased(data, rnd) ==
    [i \in 1..Len(data) |->
        [pc1 |-> NAdd(NAdd(NMul(Cell(data[i], 1), Dec(0, 800)),
                           NMul(Cell(data[i], 2), Dec(0, 200))),
                      Jitter(Draw(rnd, 2 * i - 1))),
         pc2 |-> NAdd(NAdd(NMul(Cell(data[i], 1), Dec(0, 300)),
                           NMul(Cell(data[i], 2), Dec(0, 700))),
                      Jitter(Draw(rnd, 2 * i))),
         index |-> i]]

\* simplePCA: row i takes draws 2i-1 and 2i of the stream; indices are 0-based
simplePCA(data, rnd) ==
    [i \in 1..Len(data) |->
        [pc1 |-> NAdd(NAdd(NMul(Cell(data[i], 1), Dec(0, 800)),
                           NMul(Cell(data[i], 2), Dec(0, 200))),
                      Jitter(Draw(rnd, 2 * i - 1))),
         pc2 |-> NAdd(NAdd(NMul(Cell(data[i], 1), Dec(0, 300)),
                           NMul(Cell(data[i], 2), Dec(0, 700))),
                      Jitter(Draw(rnd, 2 * i))),
         index |-> i - 1]]

\* performPCA reads data[0].length: it throws on an empty record list
PerformPCAThrows(data) == data = <<>>

performPCA(data, features, rnd) ==
    LET Values(d) == NumericRow(d, features)
    IN  simplePCA(standardizeData(MapRows(data, Values)), rnd)

\* euclideanDistance of two points
euclideanDistance(a, b) ==
    LET dx == NSub(a[1], b[1])
        dy == NSub(a[2], b[2])
        sum == NAdd(NMul(dx, dx), NMul(dy, dy))
    IN  IF sum.t # "number" THEN NaN ELSE Num(Sqrt(sum.n))

\* the rejection sampling of k distinct indices: with k > n it never ends
InitialisationHangs(n, k) == n > 0 /\ k > n

\* Math.floor(Math.random() * n), from draw pos on, until k distinct indices
RECURSIVE InitialIndices(_, _, _, _, _)
InitialIndices(n, k, rnd, pos, chosen) ==
    IF Len(chosen) >= k THEN chosen
    ELSE LET idx == (Draw(rnd, pos) * n) \div Scale
         IN  InitialIndices(n, k, rnd, pos + 1,
                 IF \E i \in 1..Len(chosen) : chosen[i] = idx THEN chosen
                 ELSE Append(chosen, idx))

\* the inner scan over centroids: the first centroid at the least distance,
\* cluster 0 when no distance compares below Infinity
RECURSIVE NearestFrom(_, _, _, _, _, _)
NearestFrom(point, centroids, j, minSet, minDist, minCluster) ==
    IF j > Len(centroids) THEN minCluster
    ELSE LET Scan(dist) ==
                 IF dist.t = "number" /\ (~minSet \/ dist.n < minDist)
                 THEN NearestFrom(point, centroids, j + 1, TRUE, dist.n, j - 1)
                 ELSE NearestFrom(point, centroids, j + 1, minSet, minDist, minCluster)
         IN  CHOOSE r \in {Scan(dist) :
                              dist \in {euclideanDistance(point, centroids[j])}} : TRUE

\* the label counted from 1 instead of 0
NearestOneBased(point, centroids) == NearestFrom(point, centroids, 1, FALSE, 0, 0) + 1

Nearest(point, centroids) == NearestFrom(point, centroids, 1, FALSE, 0, 0)

RECURSIVE NSum(_)
NSum(xs) == IF xs = <<>> THEN Num(0) ELSE NAdd(xs[1], NSum(Tail(xs)))

\* the centroid update without the test of counts[i]: a cluster that received
\* no point is left with the zeros newCentroids was filled with
UpdateCentroidZeroed(points, assignments, centroids, c) ==
    LET Mine(i) == assignments[i] = c - 1
        MeanOfMembers(members) ==
            <<NDiv(NSum([m \in 1..Len(members) |-> points[members[m]][1]]), Len(members)),
              NDiv(NSum([m \in 1..Len(members) |-> points[members[m]][2]]), Len(members))>>
    IN  CHOOSE r \in {IF Len(members) > 0 THEN MeanOfMembers(members) ELSE <<Num(0), Num(0)>> :
                        members \in {SelectSeq([i \in 1..Len(points) |-> i], Mine)}} : TRUE

\* the centroid update: the mean of a cluster's points, or the old centroid
\* where the cluster received none
UpdateCentroid(points, assignments, centroids, c) ==
    LET Mine(i) == assignments[i] = c - 1
        MeanOfMembers(members) ==
            <<NDiv(NSum([m \in 1..Len(members) |-> points[members[m]][1]]), Len(members)),
              NDiv(NSum([m \in 1..Len(members) |-> points[members[m]][2]]), Len(members))>>
    IN  CHOOSE r \in {IF Len(members) > 0 THEN MeanOfMembers(members) ELSE centroids[c] :
                        members \in {SelectSeq([i \in 1..Len(points) |-> i], Mine)}} : TRUE

MAX_ITERATIONS == 100

\* the loop test without `changed`
LoopIgnoresChange(changed, iterations) == iterations < MAX_ITERATIONS

\* changed && iterations < MAX_ITERATIONS
LoopContinues(changed, iterations) == changed /\ iterations < MAX_ITERATIONS

\* while (changed && iterations < MAX_ITERATIONS)
RECURSIVE KMeansLoop(_, _, _, _, _)
KMeansLoop(points, centroids, assignments, changed, iterations) ==
    IF ~LoopContinues(changed, iterations)
    THEN [assignments |-> assignments, centroids |-> centroids,
          iterations |-> iterations, changed |-> changed]
    ELSE LET assigned == [i \in 1..Len(points) |-> Nearest(points[i], centroids)]
             updated == [c \in 1..Len(centroids) |->
                            UpdateCentroid(points, assigned, centroids, c)]
         IN  KMeansLoop(points, updated, assigned, assigned # assignments,
                        iterations + 1)

\* kMeansClustering, for k <= n; draws start at position pos of the stream
kMeansClustering(points, k, rnd, pos) ==
    IF Len(points) = 0
    THEN [assignments |-> <<>>, centroids |-> <<>>, iterations |-> 0, changed |-> TRUE]
    ELSE LET start == InitialIndices(Len(points), k, rnd, pos, <<>>)
             centroids == [c \in 1..k |-> points[start[c] + 1]]
         IN  KMeansLoop(points, centroids, [i \in 1..Len(points) |-> 0], TRUE, 0)

performClustering(pcaData, k, rnd, pos) ==
    LET points == [i \in 1..Len(pcaData) |-> <<pcaData[i].pc1, pcaData[i].pc2>>]
    IN  kMeansClustering(points, k, rnd, pos).assignments

---------------------------------------------------------------------------
(* data-loader: processData, projection and clustering with its fallback *)

\* the try block throws only where performPCA does
TryBlockThrows(processedData, features) ==
    Len(features) > 0 /\ PerformPCAThrows(processedData)

ProjectionOf(processedData, features, rnd) ==
    IF Len(features) > 0 THEN performPCA(processedData, features, rnd) ELSE <<>>

ClusteringOf(pcaResult, rnd) ==
    IF Len(pcaResult) > 0
    THEN performClustering(pcaResult, Min(5, Len(pcaResult)), rnd, 2 * Len(pcaResult) + 1)
    ELSE <<>>

\* the catch block: random coordinates and random labels for every record
FallbackProjection(processedData, rnd) ==
    [i \in 1..Len(processedData) |->
        [pc1 |-> Num(Draw(rnd, 2 * i - 1)), pc2 |-> Num(Draw(rnd, 2 * i)), index |-> i - 1]]

FallbackClusters(processedData, rnd) ==
    [i \in 1..Len(processedData) |->
        (Draw(rnd, 2 * Len(processedData) + i) * 5) \div Scale]

\* the return statement
Bundle(standardizedData, processedData, metrics, healthBurdenIndex, pcaResult, clusterAssignments) ==
    [kind |-> "bundle",
     rawData |-> standardizedData,
     processedData |-> processedData,
     metrics |-> metrics,
     healthBurdenIndex |-> healthBurdenIndex,
     pcaResult |-> pcaResult,
     clusterAssignments |-> clusterAssignments]

\* the try block once the projection is known
Clustered(standardizedData, processedData, metrics, level, pcaResult, rnd) ==
    Bundle(standardizedData, processedData, metrics,
           BurdenIndex(processedData, level, <<>>), pcaResult, ClusteringOf(pcaResult, rnd))

\* try { ... } catch { ... }
Projected(standardizedData, processedData, metrics, features, level, rnd) ==
    IF TryBlockThrows(processedData, features)
    THEN Bundle(standardizedData, processedData, metrics,
                BurdenIndex(processedData, level, <<>>),
                FallbackProjection(processedData, rnd),
                FallbackClusters(processedData, rnd))
    ELSE Clustered(standardizedData, processedData, metrics, level,
                   ProjectionOf(processedData, features, rnd), rnd)

\* features = metrics.slice(0, Math.min(8, metrics.length))
Measured(standardizedData, processedData, metrics, level, rnd) ==
    Projected(standardizedData, processedData, metrics,
              SubSeq(metrics, 1, Min(8, Len(metrics))), level, rnd)

Aggregated(standardizedData, processedData, level, rnd) ==
    Measured(standardizedData, processedData, AvailableMetrics(processedData), level, rnd)

Standardized(standardizedData, level, rnd) ==
    IF level # "county"
       /\ GroupingThrows(AggregationInput(standardizedData, level), GroupingField(level))
    THEN [kind |-> "error", name |-> "TypeError"]
    ELSE Aggregated(standardizedData, ProcessedData(standardizedData, level), level, rnd)

\* processData (data-loader): the bundle it returns, or the error it lets out
processData(rawData, level, rnd) ==
    Standardized(StandardizeFields(rawData, level), level, rnd)

---------------------------------------------------------------------------
(* data-processing: processData and its aggregateByField *)

LibKeepRow(d, level) ==
    IF level = "county"
    THEN Truthy(And(Get(d, "FIPS"), And(Get(d, "Name"), Get(d, "State Abbreviation"))))
    ELSE Truthy(Get(d, "State Abbreviation"))

\* aggregateByField (data-processing): every column but the grouping field
LibAggregateGroup(data, field, columns, name) ==
    LET rows == GroupRows(data, field, name)
        averaged == {c \in columns \ {field} : Len(MetricValues(rows, c)) > 0}
        means == [c \in averaged |-> MeanOf(MetricValues(rows, c))]
    IN  Put(Put(means, field, Str(name)), field \o "Count", Num(Len(rows) * Scale))

LibAggregateByField(data, field, columns) ==
    LET names == EntriesOrder(GroupKeys(data, field, <<>>))
    IN  [i \in 1..Len(names) |-> LibAggregateGroup(data, field, columns, names[i])]

\* processData (data-processing)
LibFilter(data, level) ==
    LET Keep(d) == LibKeepRow(d, level)
    IN  SelectSeq(data, Keep)

LibAggregate(input, field, columns) ==
    IF GroupingThrows(input, field)
    THEN [kind |-> "error", name |-> "TypeError"]
    ELSE [kind |-> "processed", processed |-> LibAggregateByField(input, field, columns)]

LibProcessFiltered(filtered, level) ==
    IF Len(filtered) = 0
    THEN [kind |-> "error", name |-> "NoValidRows"]
    ELSE IF level = "county"
    THEN [kind |-> "processed", processed |-> filtered]
    ELSE IF level = "state"
    THEN LibAggregate(filtered, "State Abbreviation", DOMAIN filtered[1])
    ELSE LibAggregate(WithRegions(filtered), "Region", DOMAIN filtered[1] \cup {"Region"})

LibProcessData(data, level) == LibProcessFiltered(LibFilter(data, level), level)

---------------------------------------------------------------------------
(* Inputs *)

\* streams of Math.random() values, each repeating
RandomStreams ==
    { <<Dec(0, 0).n, Dec(0, 250).n, Dec(0, 500).n, Dec(0, 750).n, Dec(0, 900).n>>,
      <<Dec(0, 900).n, Dec(0, 500).n, Dec(0, 0).n, Dec(0, 750).n, Dec(0, 250).n>> }

AL == Str(<<"A", "L">>)
CA == Str(<<"C", "A">>)
NY == Str(<<"N", "Y">>)
ZZ == Str(<<"Z", "Z">>)
Constructor == Str(<<"c", "o", "n", "s", "t", "r", "u", "c", "t", "o", "r">>)

AO == "Adult Obesity raw value"
FI == "Food Insecurity raw value"
PI == "Physical Inactivity raw value"
PF == "Poor or Fair Health raw value"

Fips01001 == Str(<<"0", "1", "0", "0", "1">>)
Fips01003 == Str(<<"0", "1", "0", "0", "3">>)
Fips06001 == Str(<<"0", "6", "0", "0", "1">>)
Fips06003 == Str(<<"0", "6", "0", "0", "3">>)
Fips36001 == Str(<<"3", "6", "0", "0", "1">>)

\* a row with the three canonical identity fields
County(fips, name, state) ==
    [FIPS |-> fips, Name |-> Str(<<name>>)] @@ ("State Abbreviation" :> state)

\* the three county rows of the end-to-end scenario
ScenarioRows ==
    << [FIPS |-> Fips01001, Name |-> Str(<<"A">>), State |-> AL] @@ (AO :> Dec(0, 300)),
       [FIPS |-> Fips01003, Name |-> Str(<<"B">>), State |-> AL] @@ (AO :> Dec(0, 500)),
       [FIPS |-> Fips06001, Name |-> Str(<<"C">>), State |-> CA] @@ (AO :> Dec(0, 200)) >>

\* rows of the general run: the scenario's, a row without any metric, a row
\* that no level keeps, and two rows with two metrics
PipelineRows ==
    { ScenarioRows[1], ScenarioRows[2], ScenarioRows[3],
      County(Fips36001, "D", NY),
      [Name |-> Str(<<"E">>)] @@ (AO :> Dec(0, 700)),
      County(Fips06003, "F", CA) @@ (AO :> Dec(0, 600)) @@ (FI :> Dec(0, 100)),
      County(Fips01003, "G", AL) @@ (AO :> Dec(0, 100)) @@ (FI :> Dec(0, 400)) }

\* rows that differ in how they name and write FIPS, Name and State
FieldRows ==
    { [FIPS |-> Str(<<"1", "0", "0", "1">>), County |-> Str(<<"B">>), State |-> AL],
      [fips |-> Fips06001, Name |-> Str(<<"C">>)] @@ ("State Abbreviation" :> CA),
      [FIPS |-> Fips06001, NAME |-> Str(<<"C">>)] @@ ("State Abbreviation" :> CA),
      County(Str(<<"0", "1", "0", "0", "1", "0">>), "A", AL),
      [FIPS |-> Dec(6001, 0), county |-> Str(<<"D">>), state |-> CA],
      [FIPS |-> Fips01001, Name |-> Str(<<"A">>)],
      County(EmptyString, "E", AL) }

\* county rows that differ in what the four health metrics hold
BurdenRows ==
    { County(Fips01001, "A", AL) @@ (AO :> Dec(0, 250)) @@ (FI :> Dec(0, 500))
          @@ (PI :> Dec(0, 750)) @@ (PF :> Dec(1, 0)),
      County(Fips06001, "C", CA),
      County(Fips01003, "B", AL) @@ (AO :> EmptyString) @@ (FI :> Dec(1, 0))
          @@ (PI :> Dec(1, 0)),
      County(Fips06003, "F", CA) @@ (AO :> Dec(1, 0)) @@ (FI :> Null) @@ (PI :> Null)
          @@ (PF :> Null),
      County(Fips36001, "D", NY) @@ (AO :> Dec(2, 0))
          @@ (FI :> Str(<<"n", "/", "a">>)),
      County(Fips36001, "H", NY) @@ (AO :> Dec(0, 500)) @@ (FI :> EmptyString)
          @@ (PI :> Dec(0, 500)) }

\* county rows that differ in the text of a metric: a number with a tail, a
\* number, a number between spaces, no number at all, and a number value
CoercionRows ==
    { County(Fips01001, "A", AL) @@ (AO :> Str(<<"1", "2", "a", "b", "c">>)),
      County(Fips01003, "B", AL) @@ (AO :> Str(<<"0", ".", "2", "5">>)),
      County(Fips06001, "C", CA) @@ (AO :> Str(<<"n", "/", "a">>)),
      County(Fips06003, "F", CA) @@ (AO :> Str(<<" ", "0", ".", "5", " ">>)),
      County(Fips36001, "D", NY) @@ (AO :> Dec(0, 750)) }

\* rows handed to aggregateByField directly: keys present, absent, empty,
\* inherited and integer-like; values numeric, empty, null, textual and absent
AggregateRows ==
    { County(Fips01001, "A", AL) @@ (AO :> Dec(10, 0)),
      County(Fips01003, "B", AL) @@ (AO :> Dec(20, 0)),
      ("State Abbreviation" :> AL) @@ (AO :> EmptyString),
      County(Fips06001, "C", CA) @@ (AO :> Null) @@ (FI :> Str(<<"n", "/", "a">>)),
      [Name |-> Str(<<"E">>)] @@ (AO :> Dec(5, 0)),
      County(Fips36001, "D", EmptyString) @@ (AO :> Dec(7, 0)),
      County(Fips36001, "K", Constructor) @@ (AO :> Dec(1, 0)),
      County(Fips36001, "N", Str(<<"3", "6">>)) @@ (AO :> Dec(3, 0)) }

\* arguments of getRegionFromState: the table's names and others
RegionArguments ==
    {Str(name) : name \in NortheastStates \cup MidwestStates \cup SouthStates \cup WestStates}
    \cup { ZZ, Constructor, EmptyString, Undefined, Null, Dec(36, 0),
           Str(<<"n", "y">>), Str(<<"N">>), Str(<<"N", "Y", "C">>),
           Str(<<"t", "o", "S", "t", "r", "i", "n", "g">>),
           Str(<<"v", "a", "l", "u", "e", "O", "f">>),
           Str(<<"N", "e", "w", " ", "Y", "o", "r", "k">>) }

\* every array of at most MaxRows rows of a pool
RowArrays(pool) == UNION {[1..n -> pool] : n \in 0..MaxRows}

Levels == {"county", "state", "region"}
NoCall == [op |-> "none"]
NoLocals == [fn |-> "none"]
NoDashboard == [mounted |-> FALSE]

\* a run of the pipeline over arrays of rows of one pool
PipelineInit(pool) ==
    /\ aggregationLevel \in Levels
    /\ given \in RowArrays(pool)
    /\ preloadedData = given
    /\ pc = "ready"
    /\ call = NoCall
    /\ entry = "none"
    /\ result = [kind |-> "none"]
    /\ locals = NoLocals
    /\ dashboard = NoDashboard
    /\ inflight = {}

Init == PipelineInit(PipelineRows)
InitFields == PipelineInit(FieldRows)
InitBurden == PipelineInit(BurdenRows)

InitCoercion == PipelineInit(CoercionRows)
\* a direct call of aggregateByField
InitAggregate ==
    /\ aggregationLevel = "state"
    /\ given = <<>>
    /\ preloadedData = given
    /\ pc = "ready"
    /\ call \in {[op |-> "aggregateByField", data |-> d, field |-> f] :
                    d \in RowArrays(AggregateRows), f \in {"State Abbreviation", "Name"}}
    /\ entry = "none"
    /\ result = [kind |-> "none"]
    /\ locals = NoLocals
    /\ dashboard = NoDashboard
    /\ inflight = {}

\* a direct call of getRegionFromState
InitRegion ==
    /\ aggregationLevel = "region"
    /\ given = <<>>
    /\ preloadedData = given
    /\ pc = "ready"
    /\ call \in {[op |-> "getRegionFromState", stateAbbr |-> a] : a \in RegionArguments}
    /\ entry = "none"
    /\ result = [kind |-> "none"]
    /\ locals = NoLocals
    /\ dashboard = NoDashboard
    /\ inflight = {}

\* fetchAndProcessData(url, aggregationLevel, progressCallback, preloadedData)
FetchAndProcessData ==
    /\ pc = "ready"
    /\ call = NoCall
    /\ Len(preloadedData) <= SampleThreshold
    /\ preloadedData' = MapRows(preloadedData, PadFipsInPlace)
    /\ \E rnd \in RandomStreams :
          result' = processData(
              StratifiedSampling(preloadedData', aggregationLevel, Len(preloadedData')),
              aggregationLevel, rnd)
    /\ pc' = IF result'.kind = "error" THEN "thrown" ELSE "returned"
    /\ entry' = "fetchAndProcessData"
    /\ UNCHANGED <<aggregationLevel, given, call, locals, dashboard, inflight>>

\* processData(data, aggregationLevel) of data-processing
LibraryProcessData ==
    /\ pc = "ready"
    /\ call = NoCall
    /\ result' = LibProcessData(preloadedData, aggregationLevel)
    /\ pc' = IF result'.kind = "error" THEN "thrown" ELSE "returned"
    /\ entry' = "processData"
    /\ UNCHANGED <<aggregationLevel, given, preloadedData, call, locals, dashboard, inflight>>

\* aggregateByField(data, field, importantMetrics) of data-loader
CallAggregateByField ==
    /\ pc = "ready"
    /\ call.op = "aggregateByField"
    /\ result' = IF GroupingThrows(call.data, call.field)
                 THEN [kind |-> "error", name |-> "TypeError"]
                 ELSE [kind |-> "records",
                       records |-> aggregateByField(call.data, call.field, importantMetrics)]
    /\ pc' = IF result'.kind = "error" THEN "thrown" ELSE "returned"
    /\ entry' = "aggregateByField"
    /\ UNCHANGED <<aggregationLevel, given, preloadedData, call, locals, dashboard, inflight>>

\* aggregateByField(data, field, columns) of data-processing
CallLibAggregateByField ==
    /\ pc = "ready"
    /\ call.op = "aggregateByField"
    /\ result' = LibAggregate(call.data, call.field, {AO, FI, "Name", call.field})
    /\ pc' = IF result'.kind = "error" THEN "thrown" ELSE "returned"
    /\ entry' = "libAggregateByField"
    /\ UNCHANGED <<aggregationLevel, given, preloadedData, call, locals, dashboard, inflight>>

\* getRegionFromState(stateAbbr)
CallGetRegionFromState ==
    /\ pc = "ready"
    /\ call.op = "getRegionFromState"
    /\ result' = [kind |-> "region", region |-> getRegionFromState(call.stateAbbr)]
    /\ pc' = "returned"
    /\ entry' = "getRegionFromState"
    /\ UNCHANGED <<aggregationLevel, given, preloadedData, call, locals, dashboard, inflight>>

Next == FetchAndProcessData \/ LibraryProcessData
NextAggregate == CallAggregateByField \/ CallLibAggregateByField
NextRegion == CallGetRegionFromState

Spec == Init /\ [][Next]_vars
SpecFields == InitFields /\ [][Next]_vars
SpecBurden == InitBurden /\ [][Next]_vars
SpecCoercion == InitCoercion /\ [][Next]_vars
SpecAggregate == InitAggregate /\ [][NextAggregate]_vars
SpecRegion == InitRegion /\ [][NextRegion]_vars

---------------------------------------------------------------------------
(* kMeansClustering, one loop iteration per step *)

\* points in one input array
MaxPoints == 3

\* projected points: equal, near, far and not-a-number coordinates
PointPool ==
    { <<Num(0), Num(0)>>, <<Dec(0, 100), Num(0)>>, <<Dec(1, 0), Dec(1, 0)>>,
      <<Dec(2, 0), Dec(1, 500)>>, <<NaN, NaN>> }

PointArrays == UNION {[1..n -> PointPool] : n \in 0..MaxPoints}

\* a direct call of kMeansClustering with 1 <= k <= n, or with no point
InitKMeans ==
    /\ aggregationLevel = "county"
    /\ given = <<>>
    /\ preloadedData = given
    /\ pc = "ready"
    /\ call \in {c \in [op : {"kMeansClustering"}, points : PointArrays,
                        k : 0..(MaxPoints + 2), rnd : RandomStreams] :
                    Len(c.points) = 0 \/ c.k \in 1..Len(c.points)}
    /\ entry = "none"
    /\ result = [kind |-> "none"]
    /\ locals = NoLocals
    /\ dashboard = NoDashboard
    /\ inflight = {}

\* the locals with the first k points as centroids, whatever indices the
\* random draws chose
KMeansLocalsFirstPoints(points, start) ==
    [fn |-> "kMeansClustering",
     centroids |-> [c \in 1..Len(start) |-> points[c]],
     assignments |-> [i \in 1..Len(points) |-> 0],
     changed |-> TRUE,
     iterations |-> 0]

\* the locals once the centroids are initialised
KMeansLocals(points, start) ==
    [fn |-> "kMeansClustering",
     centroids |-> [c \in 1..Len(start) |-> points[start[c] + 1]],
     assignments |-> [i \in 1..Len(points) |-> 0],
     changed |-> TRUE,
     iterations |-> 0]

\* entry of kMeansClustering up to the loop
KMeansStart ==
    /\ pc = "ready"
    /\ call.op = "kMeansClustering"
    /\ IF Len(call.points) = 0
       THEN /\ result' = [kind |-> "clustering", assignments |-> <<>>, centroids |-> <<>>]
            /\ pc' = "returned"
            /\ UNCHANGED locals
       ELSE /\ locals' = KMeansLocals(call.points,
                             InitialIndices(Len(call.points), call.k, call.rnd, 1, <<>>))
            /\ pc' = "loop"
            /\ UNCHANGED result
    /\ entry' = "kMeansClustering"
    /\ UNCHANGED <<aggregationLevel, given, preloadedData, call, dashboard, inflight>>

\* the locals after one pass of the loop body, given the new assignments
Iterated(points, centroids, assignments, assigned, iterations) ==
    [fn |-> "kMeansClustering",
     centroids |-> [c \in 1..Len(centroids) |->
                       UpdateCentroid(points, assigned, centroids, c)],
     assignments |-> assigned,
     changed |-> assigned # assignments,
     iterations |-> iterations + 1]

\* one pass of the while loop
KMeansIterate ==
    /\ pc = "loop"
    /\ LoopContinues(locals.changed, locals.iterations)
    /\ \E assigned \in {[i \in 1..Len(call.points) |->
                               Nearest(call.points[i], locals.centroids)]} :
          locals' = Iterated(call.points, locals.centroids, locals.assignments,
                             assigned, locals.iterations)
    /\ UNCHANGED <<aggregationLevel, given, preloadedData, pc, call, entry, result, dashboard, inflight>>

\* the loop test fails: return { assignments, centroids }
KMeansReturn ==
    /\ pc = "loop"
    /\ ~LoopContinues(locals.changed, locals.iterations)
    /\ result' = [kind |-> "clustering", assignments |-> locals.assignments,
                  centroids |-> locals.centroids]
    /\ pc' = "returned"
    /\ UNCHANGED <<aggregationLevel, given, preloadedData, call, entry, locals, dashboard, inflight>>

NextKMeans == KMeansStart \/ KMeansIterate \/ KMeansReturn

SpecKMeans == InitKMeans /\ [][NextKMeans]_vars

\* the loop is a sequential program: it takes its next step
SpecKMeansFair == SpecKMeans /\ WF_vars(NextKMeans)

---------------------------------------------------------------------------
(* The dashboard page and the uploader: runs in flight, responses, and the  *)
(* client-side recalculation                                                *)

MaxRuns == 2

\* recalculation timers pending when the active metric is changed
MaxTimers == 2

\* indices a Ctrl/Cmd-click adds to
MaxSelected == 2

\* useState<number>(3); the setter is never called
optimalClusters == 3

\* the rows of the CSV the runs read
DashboardRows == { ScenarioRows[1], ScenarioRows[2], ScenarioRows[3] }

\* the page after mounting, before any data
MountedDashboard ==
    [mounted |-> TRUE, aggregationLevel |-> "county", dataLoaded |-> FALSE,
     backendAvailable |-> FALSE, processedData |-> <<>>, availableMetrics |-> <<>>,
     selectedMetric |-> "", pcaData |-> <<>>, clusters |-> <<>>, error |-> FALSE,
     selectedIndices |-> <<>>, compositeBurdenIndex |-> <<>>,
     timers |-> <<>>, hung |-> FALSE, runs |-> <<>>]

InitDashboard ==
    /\ aggregationLevel = "county"
    /\ given \in RowArrays(DashboardRows)
    /\ preloadedData = given
    /\ pc = "ready"
    /\ call = [op |-> "dashboard", backendUrl |-> FALSE]
    /\ entry = "none"
    /\ result = [kind |-> "none"]
    /\ locals = NoLocals
    /\ dashboard = MountedDashboard
    /\ inflight = {}

\* what the API route computes for a request: the bundle of the JavaScript
\* pipeline, or the error it answers with status 500 (the answer of the
\* Python backend, which is no part of the sources, is taken to be a bundle
\* of the same records)
RouteResult(rows, level, rnd) ==
    processData(StratifiedSampling(MapRows(rows, PadFipsInPlace), level, Len(rows)), level, rnd)

\* [...new Set(xs)]: the first occurrence of each element, in order
RECURSIVE Distinct(_, _)
Distinct(xs, seen) ==
    IF xs = <<>> THEN seen
    ELSE Distinct(Tail(xs),
                  IF \E i \in 1..Len(seen) : seen[i] = Head(xs) THEN seen
                  ELSE Append(seen, Head(xs)))

Includes(xs, x) == \E i \in 1..Len(xs) : xs[i] = x

\* the features of the recalculation effect: the selected metric and four
\* fixed ones where available, filled up to three from the available metrics
\* (every name of the allow-list includes "raw value")
FeaturesFilled(featuresToUse, availableMetrics) ==
    IF Len(featuresToUse) >= 3 THEN featuresToUse
    ELSE LET Additional(m) == ~Includes(featuresToUse, m)
             more == SelectSeq(availableMetrics, Additional)
         IN  featuresToUse \o SubSeq(more, 1, Min(3 - Len(featuresToUse), Len(more)))

FeaturesToUse(selectedMetric, availableMetrics) ==
    LET Available(m) == Includes(availableMetrics, m)
    IN  FeaturesFilled(
            Distinct(SelectSeq(<<selectedMetric, "Adult Obesity raw value",
                                 "Physical Inactivity raw value",
                                 "Poor or Fair Health raw value",
                                 "Median Household Income raw value">>, Available), <<>>),
            availableMetrics)

\* recalculatePCAAndClustering: nothing without data or features, else a
\* timer of 100 ms that holds both
recalculatePCAAndClustering(d, data, features) ==
    IF data = <<>> \/ features = <<>> THEN d
    ELSE [d EXCEPT !.timers = Append(@, [data |-> data, features |-> features])]

\* the effect that follows a change of the data or of the selected metric
RecalculationEffect(d) ==
    IF d.dataLoaded /\ ~d.backendAvailable /\ d.selectedMetric # ""
    THEN recalculatePCAAndClustering(d, d.processedData,
             FeaturesToUse(d.selectedMetric, d.availableMetrics))
    ELSE d

\* handleProcessedData for a bundle (its pcaResult and clusterAssignments are
\* arrays, hence truthy); selectedIndices is not among the state it sets
handleProcessedData(d, data) ==
    [d EXCEPT !.processedData = data.processedData,
              !.availableMetrics = data.metrics,
              !.selectedMetric = IF Len(data.metrics) > 0 THEN data.metrics[1] ELSE "",
              !.compositeBurdenIndex = data.healthBurdenIndex,
              !.pcaData = data.pcaResult,
              !.clusters = data.clusterAssignments,
              !.dataLoaded = TRUE]

\* the uploader's level selector
SetAggregationLevel ==
    /\ dashboard.mounted
    /\ ~dashboard.hung
    /\ Len(dashboard.runs) < MaxRuns
    /\ \E level \in Levels \ {aggregationLevel} : aggregationLevel' = level
    /\ UNCHANGED <<given, preloadedData, pc, call, entry, result, locals, dashboard, inflight>>

\* handleFile / handleDrop of the uploader: a run at the uploader's level;
\* the drop zone stays active while an upload is under way
HandleFile ==
    /\ dashboard.mounted
    /\ ~dashboard.hung
    /\ Len(dashboard.runs) < MaxRuns
    /\ \E rnd \in RandomStreams :
          dashboard' = [dashboard EXCEPT !.runs =
                           Append(@, [from |-> "handleFile", level |-> aggregationLevel,
                                      rnd |-> rnd, python |-> FALSE])]
    /\ inflight' = inflight \cup {Len(dashboard.runs) + 1}
    /\ UNCHANGED <<aggregationLevel, given, preloadedData, pc, call, entry, result, locals>>

\* handleAggregationChange of the page, up to the fetch; the route answers
\* from the Python backend when NEXT_PUBLIC_BACKEND_URL is set and the
\* backend answers
HandleAggregationChange ==
    /\ dashboard.mounted
    /\ ~dashboard.hung
    /\ Len(dashboard.runs) < MaxRuns
    /\ \E level \in Levels \ {dashboard.aggregationLevel}, rnd \in RandomStreams,
          python \in {FALSE, call.backendUrl} :
          dashboard' = [dashboard EXCEPT
                           !.aggregationLevel = level,
                           !.selectedIndices = <<>>,
                           !.runs = Append(@, [from |-> "handleAggregationChange",
                                               level |-> level, rnd |-> rnd,
                                               python |-> python])]
    /\ inflight' = inflight \cup {Len(dashboard.runs) + 1}
    /\ UNCHANGED <<aggregationLevel, given, preloadedData, pc, call, entry, result, locals>>

\* the page once the response of a run is in: an error is reported, a bundle
\* goes through setBackendAvailable(!!data.usedPythonBackend),
\* handleProcessedData and the effect that follows the render
Received(d, run, data) ==
    IF data.kind = "error"
    THEN [d EXCEPT !.error = (run.from = "handleAggregationChange") \/ @]
    ELSE RecalculationEffect(
             handleProcessedData([d EXCEPT !.error = (run.from # "handleFile") /\ @,
                                           !.backendAvailable = run.python], data))

\* the response of a run in flight arrives (for an upload, 500 ms later
\* onDataUploaded fires): responses arrive in any order
ResponseArrives ==
    /\ dashboard.mounted
    /\ ~dashboard.hung
    /\ \E i \in inflight :
          /\ dashboard' = Received(dashboard, dashboard.runs[i],
                              RouteResult(given, dashboard.runs[i].level, dashboard.runs[i].rnd))
          /\ inflight' = inflight \ {i}
    /\ UNCHANGED <<aggregationLevel, given, preloadedData, pc, call, entry, result, locals>>

\* the page after the timer's callback, given the projection: performClustering
\* with optimalClusters never returns when it has fewer points than clusters
Recalculated(d, pcaResult, rnd) ==
    IF InitialisationHangs(Len(pcaResult), optimalClusters)
    THEN [d EXCEPT !.timers = Tail(@), !.hung = TRUE]
    ELSE [d EXCEPT !.timers = Tail(@),
                   !.pcaData = pcaResult,
                   !.clusters = performClustering(pcaResult, optimalClusters, rnd,
                                                  2 * Len(pcaResult) + 1)]

\* the callback of the 100 ms timer of recalculatePCAAndClustering
RecalculationTimer ==
    /\ dashboard.mounted
    /\ ~dashboard.hung
    /\ dashboard.timers # <<>>
    /\ \E rnd \in RandomStreams :
          \E pcaResult \in {performPCA(Head(dashboard.timers).data,
                                       Head(dashboard.timers).features, rnd)} :
             /\ dashboard' = Recalculated(dashboard, pcaResult, rnd)
             /\ locals' = [fn |-> "performClustering", n |-> Len(pcaResult),
                           k |-> optimalClusters]
    /\ UNCHANGED <<aggregationLevel, given, preloadedData, pc, call, entry, result, inflight>>

NextDashboard ==
    \/ SetAggregationLevel
    \/ HandleFile
    \/ HandleAggregationChange
    \/ ResponseArrives
    \/ RecalculationTimer

SpecDashboard == InitDashboard /\ [][NextDashboard]_vars

\* the Select of the active metric: onValueChange={setSelectedMetric}, then
\* the effect that follows the render
SelectMetric ==
    /\ dashboard.mounted
    /\ ~dashboard.hung
    /\ dashboard.dataLoaded
    /\ Len(dashboard.timers) < MaxTimers
    /\ \E k \in 1..Len(dashboard.availableMetrics) :
          /\ dashboard.availableMetrics[k] # dashboard.selectedMetric
          /\ dashboard' = RecalculationEffect(
                              [dashboard EXCEPT !.selectedMetric = dashboard.availableMetrics[k]])
    /\ UNCHANGED <<aggregationLevel, given, preloadedData, pc, call, entry, result, locals, inflight>>

\* handleSelection(indices, addToSelection) from a visualization that shows
\* the records held: one index replaces the selection or is added to it
HandleSelection ==
    /\ dashboard.mounted
    /\ ~dashboard.hung
    /\ \E i \in 0..(Len(dashboard.processedData) - 1), addToSelection \in BOOLEAN :
          /\ addToSelection => Len(dashboard.selectedIndices) < MaxSelected
          /\ dashboard' = [dashboard EXCEPT !.selectedIndices =
                               IF addToSelection THEN Distinct(@ \o <<i>>, <<>>) ELSE <<i>>]
    /\ UNCHANGED <<aggregationLevel, given, preloadedData, pc, call, entry, result, locals, inflight>>

\* clearSelection
ClearSelection ==
    /\ dashboard.mounted
    /\ ~dashboard.hung
    /\ dashboard.selectedIndices # <<>>
    /\ dashboard' = [dashboard EXCEPT !.selectedIndices = <<>>]
    /\ UNCHANGED <<aggregationLevel, given, preloadedData, pc, call, entry, result, locals, inflight>>

\* exportData: selectedIndices.map((i) => processedData[i]), then
\* Object.keys(dataToExport[0]) and Object.values(row) of every row, which
\* throw a TypeError on undefined
ExportData ==
    /\ dashboard.mounted
    /\ ~dashboard.hung
    /\ dashboard.processedData # <<>>
    /\ locals' = [fn |-> "exportData",
                  threw |-> \E j \in 1..Len(dashboard.selectedIndices) :
                               dashboard.selectedIndices[j] >= Len(dashboard.processedData)]
    /\ UNCHANGED <<aggregationLevel, given, preloadedData, pc, call, entry, result, dashboard, inflight>>

\* the CSV of a session: three counties of two states, with two metrics
SessionRows ==
    << County(Fips01001, "A", AL) @@ (AO :> Dec(0, 300)) @@ (FI :> Dec(0, 100)),
       County(Fips01003, "B", AL) @@ (AO :> Dec(0, 500)) @@ (FI :> Dec(0, 400)),
       County(Fips06001, "C", CA) @@ (AO :> Dec(0, 200)) @@ (FI :> Dec(0, 600)) >>

\* a session over that CSV, with or without a Python backend configured
SessionInit(backendUrl) ==
    /\ aggregationLevel = "county"
    /\ given = SessionRows
    /\ preloadedData = given
    /\ pc = "ready"
    /\ call = [op |-> "dashboard", backendUrl |-> backendUrl]
    /\ entry = "none"
    /\ result = [kind |-> "none"]
    /\ locals = NoLocals
    /\ dashboard = MountedDashboard
    /\ inflight = {}

InitMetric == SessionInit(TRUE)
InitSelection == SessionInit(FALSE)

NextMetric == NextDashboard \/ SelectMetric

NextSelection == NextDashboard \/ HandleSelection \/ ClearSelection \/ ExportData

SpecMetric == InitMetric /\ [][NextMetric]_vars
SpecSelection == InitSelection /\ [][NextSelection]_vars

---------------------------------------------------------------------------
(* The correlation engine (calculateCorrelation, calculateCorrelationMatrix) *)

\* typeof v === "string" ? Number.parseFloat(v) : v
PairValue(v) == IF v.t = "string" THEN ParseFloat(v) ELSE v

PairOf(d, xMetric, yMetric) ==
    [x |-> PairValue(Get(d, xMetric)), y |-> PairValue(Get(d, yMetric))]

\* the filter on the pairs
ValidPair(p) ==
    /\ p.x # Undefined
    /\ p.y # Undefined
    /\ ~IsNaN(p.x)
    /\ ~IsNaN(p.y)
    /\ p.x # Null
    /\ p.y # Null

PairsOf(data, xMetric, yMetric) ==
    SelectSeq([i \in 1..Len(data) |-> PairOf(data[i], xMetric, yMetric)], ValidPair)

\* pairs.reduce((sum, d) => sum + d.x, 0) / pairs.length
PairMean(values) == FlDiv(Accumulate(values, 1, FromCount(0)), FromCount(Len(values)))

\* pair.x - xMean for every pair
Deviations(values, mean) == [i \in 1..Len(values) |-> FlSub(values[i], mean)]

\* numerator += xDiff * yDiff over the pairs (the denominators likewise)
SumOfProducts(a, b) ==
    Accumulate([i \in 1..Len(a) |-> FlMul(a[i], b[i])], 1, FromCount(0))

\* the square root of the first sum's square alone
DenominatorOfX(xDenominator, yDenominator) ==
    FlSqrt(FlMul(xDenominator, xDenominator))

\* Math.sqrt(xDenominator * yDenominator)
PearsonDenominator(xDenominator, yDenominator) ==
    FlSqrt(FlMul(xDenominator, yDenominator))

\* the loop and the return, given the deviations of both columns (the
\* exponent of the model is unbounded: the root of a product of nonzero sums
\* is never zero)
Pearson(xDiffs, yDiffs) ==
    IF SumOfProducts(xDiffs, xDiffs).m = 0 \/ SumOfProducts(yDiffs, yDiffs).m = 0 THEN NaN
    ELSE Num(OnGrid(FlDiv(SumOfProducts(xDiffs, yDiffs),
                          PearsonDenominator(SumOfProducts(xDiffs, xDiffs),
                                             SumOfProducts(yDiffs, yDiffs)))))

Correlate(xs, ys) == Pearson(Deviations(xs, PairMean(xs)), Deviations(ys, PairMean(ys)))

CorrelationOfPairs(pairs) ==
    IF Len(pairs) < 2 THEN NaN
    ELSE Correlate([i \in 1..Len(pairs) |-> FromNumber(pairs[i].x.n)],
                   [i \in 1..Len(pairs) |-> FromNumber(pairs[i].y.n)])

calculateCorrelation(data, xMetric, yMetric) ==
    CorrelationOfPairs(PairsOf(data, xMetric, yMetric))

\* for (const y of metrics) for (const x of metrics) result.push({x, y, correlation})
calculateCorrelationMatrix(data, metrics) ==
    [k \in 1..(Len(metrics) * Len(metrics)) |->
        [x |-> metrics[((k - 1) % Len(metrics)) + 1],
         y |-> metrics[((k - 1) \div Len(metrics)) + 1],
         correlation |-> calculateCorrelation(data,
                             metrics[((k - 1) % Len(metrics)) + 1],
                             metrics[((k - 1) \div Len(metrics)) + 1])]]

\* records that differ in what three metrics hold: numbers, numeric and
\* other text, an empty cell, null, nothing, and a column that is constant
CorrelationRows ==
    { (AO :> Dec(0, 250)) @@ (FI :> Dec(0, 500)) @@ (PI :> Dec(0, 350)),
      (AO :> Dec(0, 500)) @@ (FI :> Str(<<"0", ".", "2", "5">>)) @@ (PI :> Dec(0, 350)),
      (AO :> Dec(1, 0)) @@ (FI :> Dec(1, 0)) @@ (PI :> Dec(0, 350)),
      (AO :> Null) @@ (FI :> Dec(2, 0)),
      (AO :> Str(<<"n", "/", "a">>)) @@ (FI :> EmptyString) @@ (PI :> Dec(0, 350)) }

CorrelationMetrics == <<AO, FI, PI>>

\* a direct call of calculateCorrelation or of calculateCorrelationMatrix
InitCorrelation ==
    /\ aggregationLevel = "county"
    /\ given = <<>>
    /\ preloadedData = given
    /\ pc = "ready"
    /\ call \in [op : {"calculateCorrelation"}, data : RowArrays(CorrelationRows),
                 xMetric : {AO, FI, PI}, yMetric : {AO, FI, PI}]
           \cup [op : {"calculateCorrelationMatrix"}, data : RowArrays(CorrelationRows),
                 xMetric : {AO}, yMetric : {AO}]
    /\ entry = "none"
    /\ result = [kind |-> "none"]
    /\ locals = NoLocals
    /\ dashboard = NoDashboard
    /\ inflight = {}

CallCalculateCorrelation ==
    /\ pc = "ready"
    /\ call.op = "calculateCorrelation"
    /\ result' = [kind |-> "correlation",
                  correlation |-> calculateCorrelation(call.data, call.xMetric, call.yMetric)]
    /\ pc' = "returned"
    /\ entry' = "calculateCorrelation"
    /\ UNCHANGED <<aggregationLevel, given, preloadedData, call, locals, dashboard, inflight>>

CallCalculateCorrelationMatrix ==
    /\ pc = "ready"
    /\ call.op = "calculateCorrelationMatrix"
    /\ result' = [kind |-> "matrix",
                  matrix |-> calculateCorrelationMatrix(call.data, CorrelationMetrics)]
    /\ pc' = "returned"
    /\ entry' = "calculateCorrelationMatrix"
    /\ UNCHANGED <<aggregationLevel, given, preloadedData, call, locals, dashboard, inflight>>

NextCorrelation == CallCalculateCorrelation \/ CallCalculateCorrelationMatrix

SpecCorrelation == InitCorrelation /\ [][NextCorrelation]_vars

---------------------------------------------------------------------------
(* standardizeData, called directly *)

MaxFeatures == 2

\* cell values: zero, a half, one, and 0.35, whose sum over three rows is not
\* a number the precision holds (nor one a double holds)
CellValues == { 0, Dec(0, 500).n, Dec(1, 0).n, Dec(0, 350).n }

Matrices ==
    UNION {[1..n -> [1..m -> CellValues]] : n \in 1..MaxRows, m \in 1..MaxFeatures}

InitStandardize ==
    /\ aggregationLevel = "county"
    /\ given = <<>>
    /\ preloadedData = given
    /\ pc = "ready"
    /\ call \in [op : {"standardizeData"}, data : Matrices]
    /\ entry = "none"
    /\ result = [kind |-> "none"]
    /\ locals = NoLocals
    /\ dashboard = NoDashboard
    /\ inflight = {}

\* standardizeData(data)
CallStandardizeData ==
    /\ pc = "ready"
    /\ call.op = "standardizeData"
    /\ result' = [kind |-> "matrix", matrix |-> standardizeData(call.data)]
    /\ pc' = "returned"
    /\ entry' = "standardizeData"
    /\ UNCHANGED <<aggregationLevel, given, preloadedData, call, locals, dashboard, inflight>>

NextStandardize == CallStandardizeData

SpecStandardize == InitStandardize /\ [][NextStandardize]_vars

---------------------------------------------------------------------------
(* Properties *)

Bundled == pc = "returned" /\ entry = "fetchAndProcessData" /\ result.kind = "bundle"

\* the rows the data-loader filter lets through, as processData sees them
Survivors == FilterRows(MapRows(MapRows(given, PadFipsInPlace), CoerceRow), aggregationLevel)

\* C1: whenever no input row survives the filter of the requested level (an
\* empty input included), the run of either entry point fails with NoValidRows
\* and returns no bundle.
C1_EmptyFilterFailsWithNoValidRows ==
    /\ (entry = "fetchAndProcessData" /\ Survivors = <<>>)
          => (pc = "thrown" /\ result.kind = "error" /\ result.name = "NoValidRows")
    /\ (entry = "processData" /\ LibFilter(given, aggregationLevel) = <<>>)
          => (pc = "thrown" /\ result.kind = "error" /\ result.name = "NoValidRows")

\* a raw row once its absent identity fields are filled from the aliases
AliasFilled(row) == StandardizeRow(CoerceRow(PadFipsInPlace(row)))

\* the filter policy as the specification words it
Identified(row, level) ==
    IF level = "county"
    THEN /\ Truthy(Get(row, "FIPS"))
         /\ Truthy(Get(row, "Name"))
         /\ Truthy(Get(row, "State Abbreviation"))
    ELSE Truthy(Get(row, "State Abbreviation"))

IdentifiedRows ==
    LET Keep(row) == Identified(row, aggregationLevel)
    IN  SelectSeq(MapRows(given, AliasFilled), Keep)

\* C2: a raw row survives field standardization if and only if, after its
\* absent FIPS / Name / State Abbreviation are filled from the aliases, it has
\* all three at county level, or State Abbreviation at state and region level.
C2_SurvivesIffIdentifiedAfterAliasFill ==
    Bundled => result.rawData = IdentifiedRows

RECURSIVE Zeros(_)
Zeros(n) == IF n <= 0 THEN <<>> ELSE <<"0">> \o Zeros(n - 1)

CountyRecords == IF Bundled /\ aggregationLevel = "county" THEN result.rawData ELSE <<>>

\* C3 as stated: every county-level record of field standardization has a
\* FIPS that is a string of length exactly 5, a non-empty Name and a non-empty
\* State Abbreviation.
C3_CountyFipsHasLengthFive ==
    \A i \in 1..Len(CountyRecords) :
        /\ Get(CountyRecords[i], "FIPS").t = "string"
        /\ Len(Get(CountyRecords[i], "FIPS").s) = 5
        /\ Truthy(Get(CountyRecords[i], "Name"))
        /\ Truthy(Get(CountyRecords[i], "State Abbreviation"))

\* the text of a raw FIPS value written by record r: zero-filled on the left
\* up to five characters, unchanged when it is longer
WrittenFrom(r, text) ==
    IF Len(text) <= 5
    THEN Get(r, "FIPS").s = Zeros(5 - Len(text)) \o text
    ELSE Get(r, "FIPS").s = text

\* C3 amended: every county-level record of field standardization has a FIPS
\* that is a string of at least 5 characters, the text of a FIPS of the input
\* left-padded with zeros to exactly 5 characters when that text is shorter
\* and kept as it is when it is longer, a non-empty Name and a non-empty State
\* Abbreviation.
C3_CountyFipsPaddedToFive ==
    \A i \in 1..Len(CountyRecords) :
        /\ Get(CountyRecords[i], "FIPS").t = "string"
        /\ Len(Get(CountyRecords[i], "FIPS").s) >= 5
        /\ \E j \in 1..Len(given) :
              /\ Get(given[j], "FIPS") # Undefined
              /\ WrittenFrom(CountyRecords[i], JsString(Get(given[j], "FIPS")))
        /\ Truthy(Get(CountyRecords[i], "Name"))
        /\ Truthy(Get(CountyRecords[i], "State Abbreviation"))

\* a county run that padded the FIPS 1001 and kept a FIPS of six characters
C3_PaddedAndLongFipsKept ==
    /\ \E i \in 1..Len(CountyRecords) : Get(CountyRecords[i], "FIPS") = Fips01001
    /\ \E i \in 1..Len(CountyRecords) : Len(Get(CountyRecords[i], "FIPS").s) = 6
    /\ \E j \in 1..Len(given) : Get(given[j], "FIPS") = Str(<<"1", "0", "0", "1">>)

\* the records a direct call of aggregateByField returned
Records ==
    IF pc # "returned" THEN <<>>
    ELSE IF result.kind = "records" THEN result.records
    ELSE IF result.kind = "processed" THEN result.processed
    ELSE <<>>

\* a value the specification counts as present and numeric: a number, or text
\* that is not empty and reads as a number
PresentNumeric(v) ==
    \/ v.t = "number"
    \/ (v.t = "string" /\ TrimLeft(v.s) # <<>> /\ ToNumber(v).t = "number")

\* the present numeric values of one metric in the rows carrying one key
PresentValues(data, field, key, metric) ==
    LET Carries(row) ==
            /\ Truthy(Get(row, field))
            /\ JsString(Get(row, field)) = key.s
            /\ PresentNumeric(Get(row, metric))
        rows == SelectSeq(data, Carries)
    IN  [i \in 1..Len(rows) |-> ToNumber(Get(rows[i], metric)).n]

\* C4: for every group and metric, aggregateByField (either copy) sets the
\* metric to the mean of exactly the present numeric values of the group's
\* rows, a missing value (undefined, null, empty cell, non-numeric text)
\* entering neither sum nor divisor, and omits the metric when the group has
\* no present numeric value.
C4_MeanOfPresentValues ==
    \A i \in 1..Len(Records) : \A metric \in {AO, FI} :
        LET values == PresentValues(call.data, call.field, Records[i][call.field], metric)
        IN  IF Len(values) = 0
            THEN metric \notin DOMAIN Records[i]
            ELSE /\ metric \in DOMAIN Records[i]
                 /\ Records[i][metric] = Num(Quot(SumSeq(values), Len(values)))

\* the distinct values of the grouping field that are not falsy
DistinctKeys(data, field) ==
    {Get(data[i], field) : i \in {j \in 1..Len(data) : Truthy(Get(data[j], field))}}

RowsCarrying(data, field, key) == {i \in 1..Len(data) : Get(data[i], field) = key}

\* C5: aggregateByField (data-loader) emits exactly one record per distinct
\* non-falsy value of the grouping field, none for a missing or falsy key, and
\* each record's <field>Count is the number of input rows carrying its key.
C5_OneRecordPerDistinctKey ==
    entry = "aggregateByField" =>
        /\ pc = "returned"
        /\ result.kind = "records"
        /\ Len(result.records) = Cardinality(DistinctKeys(call.data, call.field))
        /\ \A key \in DistinctKeys(call.data, call.field) :
              \E i \in 1..Len(result.records) :
                  /\ Get(result.records[i], call.field) = key
                  /\ Get(result.records[i], call.field \o "Count")
                        = Num(Cardinality(RowsCarrying(call.data, call.field, key)) * Scale)

\* the end-to-end scenario: the three county rows at state level
ScenarioRun == given = ScenarioRows /\ aggregationLevel = "state" /\ Bundled

\* the scenario's two records but for the name of the count field
ScenarioRecords(countField) ==
    /\ Len(result.processedData) = 2
    /\ Get(result.processedData[1], "State Abbreviation") = AL
    /\ Get(result.processedData[1], AO) = Dec(0, 400)
    /\ Get(result.processedData[1], countField) = Dec(2, 0)
    /\ Get(result.processedData[2], "State Abbreviation") = CA
    /\ Get(result.processedData[2], AO) = Dec(0, 200)
    /\ Get(result.processedData[2], countField) = Dec(1, 0)

\* C6 as stated: the scenario yields exactly 2 aggregated records, State
\* Abbreviation AL and CA, Adult Obesity means 0.4 and 0.2, and a field named
\* StateAbbreviationCount equal to 2 and 1.
C6_ScenarioStateAbbreviationCount ==
    (entry = "fetchAndProcessData" /\ given = ScenarioRows /\ aggregationLevel = "state")
        => (ScenarioRun /\ ScenarioRecords("StateAbbreviationCount"))

\* C6 amended: the same, the count field being named `State AbbreviationCount`
\* (the grouping field's name, space included, followed by Count).
C6_ScenarioStateLevel ==
    (entry = "fetchAndProcessData" /\ given = ScenarioRows /\ aggregationLevel = "state")
        => (ScenarioRun /\ ScenarioRecords("State AbbreviationCount"))

\* the scenario has run
C6_ScenarioRan == ScenarioRun /\ Len(result.processedData) = 2

\* the abbreviations of the 50 states and DC
StateAbbreviations == NortheastStates \cup MidwestStates \cup SouthStates \cup WestStates

\* C7: getRegionFromState maps each of the 50 state abbreviations plus DC to
\* exactly one of Northeast, Midwest, South, West and every other input to
\* "Unknown"; NY gives Northeast and ZZ gives Unknown.
C7_RegionOfEveryInput ==
    entry = "getRegionFromState" =>
        /\ pc = "returned"
        /\ IF call.stateAbbr.t = "string" /\ call.stateAbbr.s \in StateAbbreviations
           THEN result.region \in {Northeast, Midwest, South, West}
           ELSE result.region = Unknown
        /\ call.stateAbbr = NY => result.region = Northeast
        /\ call.stateAbbr = ZZ => result.region = Unknown

\* C8: every value stored in healthBurdenIndex is a number in [0, 1], whatever
\* the four health metrics of the entity hold.
C8_BurdenIndexInUnitInterval ==
    Bundled =>
        \A id \in DOMAIN result.healthBurdenIndex :
            /\ result.healthBurdenIndex[id].t = "number"
            /\ result.healthBurdenIndex[id].n >= 0
            /\ result.healthBurdenIndex[id].n <= Scale

\* the health metrics the specification counts as present for an entity
PresentMetrics(entity) ==
    LET Present(metric) == PresentNumeric(Get(entity, metric))
    IN  SelectSeq(healthMetrics, Present)

\* the contribution of one present metric: its value in [0, 1], else 0.5
Contribution(entity, metric) ==
    LET v == ToNumber(Get(entity, metric)).n
    IN  IF v >= 0 /\ v <= Scale THEN v ELSE Dec(0, 500).n

\* the index the specification gives an entity
MeanContribution(entity) ==
    LET present == PresentMetrics(entity)
        parts == [i \in 1..Len(present) |-> Contribution(entity, present[i])]
    IN  IF Len(present) = 0 THEN Dec(0, 500)
        ELSE Num(Quot(SumSeq(parts), Len(present)))

\* C9: the index of an entity is the sum of the contributions of its present
\* health metrics divided by their number, a missing metric never counting as
\* present: the exact mean with all four present and in [0, 1], exactly 0.5
\* with none present.
C9_BurdenIsMeanOfPresent ==
    Bundled =>
        \A i \in 1..Len(result.processedData) :
            LET id == EntityId(result.processedData[i], aggregationLevel)
            IN  (/\ Truthy(id)
                 /\ \A j \in (i + 1)..Len(result.processedData) :
                       EntityId(result.processedData[j], aggregationLevel) # id)
                => result.healthBurdenIndex[JsString(id)]
                      = MeanContribution(result.processedData[i])

\* entry i of pcaResult carries index i, and clusterAssignments holds one
\* integer label per entry of pcaResult
ParallelArrays ==
    /\ \A i \in 1..Len(result.pcaResult) : result.pcaResult[i].index = i - 1
    /\ Len(result.clusterAssignments) = Len(result.pcaResult)
    /\ \A i \in 1..Len(result.clusterAssignments) : result.clusterAssignments[i] \in Int

KMeansReturned == pc = "returned" /\ entry = "kMeansClustering"

\* C11: for n points and 1 <= k <= n, kMeansClustering returns an assignment
\* array of length n in which every label is an integer in [0, k); for k = 1
\* every label is 0; for n = 0 it returns an empty assignment for any k.
C11_LabelsParallelAndInRange ==
    KMeansReturned =>
        /\ Len(result.assignments) = Len(call.points)
        /\ \A i \in 1..Len(result.assignments) :
              /\ result.assignments[i] \in Int
              /\ result.assignments[i] >= 0
              /\ result.assignments[i] < call.k
        /\ call.k = 1 => \A i \in 1..Len(result.assignments) : result.assignments[i] = 0
        /\ Len(call.points) = 0 => result.assignments = <<>>

\* three points were split over two clusters, both labels in use
C11_TwoClustersUsed ==
    /\ KMeansReturned
    /\ Len(call.points) = 3
    /\ call.k = 2
    /\ \E i, j \in 1..3 : result.assignments[i] = 0 /\ result.assignments[j] = 1

\* the result of the steps is the result of the loop run at once
StepsAgreeWithLoop ==
    (KMeansReturned /\ Len(call.points) > 0) =>
        result.assignments = kMeansClustering(call.points, call.k, call.rnd, 1).assignments

InLoop == pc = "loop" /\ locals.fn = "kMeansClustering"

C13_ClusterCountWithinPoints ==
    /\ dashboard.mounted => ~dashboard.hung
    /\ locals.fn = "performClustering" => locals.k <= locals.n

\* the bundle the route answers run i with
ResponseOf(i) == RouteResult(given, dashboard.runs[i].level, dashboard.runs[i].rnd)

\* C18: when two pipeline runs overlap, once both have completed the
\* dashboard holds the records and metrics of the run triggered last,
\* whatever the order in which the responses arrived.
C18_LastTriggeredRunIsHeld ==
    (/\ dashboard.mounted
     /\ Len(dashboard.runs) = 2
     /\ inflight = {}
     /\ ResponseOf(1).kind = "bundle"
     /\ ResponseOf(2).kind = "bundle")
        => /\ dashboard.processedData = ResponseOf(2).processedData
           /\ dashboard.availableMetrics = ResponseOf(2).metrics

\* C19: a pipeline run is pure: once fetchAndProcessData has returned or
\* thrown, every row the caller passed in has the fields and values it had
\* before the call (`given` keeps the rows as they were).
C19_CallerRowsUnchanged ==
    (entry = "fetchAndProcessData" /\ pc \in {"returned", "thrown"})
        => preloadedData = given

\* some processed record of the bundle holds a number under the metric
HasNumericValue(metric) ==
    \E i \in 1..Len(result.processedData) :
        Get(result.processedData[i], metric).t = "number"

\* C16: the metrics list of a bundle holds exactly the allow-list names for
\* which some processed record holds a non-missing numeric value; a column
\* with only missing or non-numeric values is not listed (and so is never a
\* projection feature, the features being the first eight metrics).
C16_MetricsHoldNumericData ==
    Bundled =>
        \A j \in 1..Len(importantMetrics) :
            Includes(result.metrics, importantMetrics[j])
                <=> HasNumericValue(importantMetrics[j])

\* what the catch block makes of the run's records: the same return
\* statement over random coordinates and random labels
FallbackBundle(rnd) ==
    Bundle(result.rawData, result.processedData, result.metrics, result.healthBurdenIndex,
           FallbackProjection(result.processedData, rnd),
           FallbackClusters(result.processedData, rnd))

Tolerance == Scale \div 5

\* column j of a matrix of numbers
GridColumn(data, j) == [i \in 1..Len(data) |-> data[i][j]]

IsConstant(column) == \A i \in 1..Len(column) : column[i] = column[1]

\* the mean of the squares of a column about zero, on the grid
MeanSquare(column) ==
    Quot(SumSeq([i \in 1..Len(column) |-> Quot(column[i] * column[i], Scale)]), Len(column))

\* a standardized column: mean 0 and population standard deviation 1, both
\* within the tolerance
IsStandardized(column) ==
    /\ Abs(Quot(SumSeq(column), Len(column))) <= Tolerance
    /\ Abs(Sqrt(MeanSquare(column)) - Scale) <= Tolerance

\* C20: for every non-empty n x m numeric matrix standardizeData returns an
\* n x m matrix in which every non-constant column has mean 0 and population
\* standard deviation 1 within tolerance and every constant column is all
\* zeros.
C20_ColumnsStandardized ==
    (pc = "returned" /\ entry = "standardizeData") =>
        /\ Len(result.matrix) = Len(call.data)
        /\ \A i \in 1..Len(call.data) : Len(result.matrix[i]) = Len(call.data[1])
        /\ \A j \in 1..Len(call.data[1]) :
              IF IsConstant(GridColumn(call.data, j))
              THEN \A i \in 1..Len(call.data) : result.matrix[i][j] = 0
              ELSE IsStandardized(GridColumn(result.matrix, j))

\* the entry of a correlation matrix for the pair (x, y)
MatrixEntry(matrix, x, y) ==
    matrix[CHOOSE k \in 1..Len(matrix) : matrix[k].x = x /\ matrix[k].y = y].correlation

\* C14: calculateCorrelation(data, x, y) is calculateCorrelation(data, y, x),
\* the same number or both NaN, and the matrix of calculateCorrelationMatrix
\* holds the same value at (x, y) and at (y, x).
C14_CorrelationIsSymmetric ==
    /\ (pc = "returned" /\ entry = "calculateCorrelation")
          => result.correlation
                 = calculateCorrelation(call.data, call.yMetric, call.xMetric)
    /\ (pc = "returned" /\ entry = "calculateCorrelationMatrix")
          => /\ Len(result.matrix) = Len(CorrelationMetrics) * Len(CorrelationMetrics)
             /\ \A i, j \in 1..Len(CorrelationMetrics) :
                   MatrixEntry(result.matrix, CorrelationMetrics[i], CorrelationMetrics[j])
                       = MatrixEntry(result.matrix, CorrelationMetrics[j],
                                     CorrelationMetrics[i])

\* two different columns correlated to a number that is neither 0 nor 1
C14_TwoColumnsCorrelated ==
    /\ pc = "returned"
    /\ entry = "calculateCorrelation"
    /\ call.xMetric # call.yMetric
    /\ result.correlation.t = "number"
    /\ result.correlation.n \notin {0, Scale, -Scale}

\* a value that is present and numeric: a number, or text that parses as one
ParsesAsNumber(v) == v.t = "number" \/ (v.t = "string" /\ ParseFloat(v).t = "number")

\* the values of one metric in the records where both metrics are present
\* and numeric
PairedValues(data, metric, other) ==
    LET Both(d) == ParsesAsNumber(Get(d, metric)) /\ ParsesAsNumber(Get(d, other))
        rows == SelectSeq(data, Both)
    IN  [i \in 1..Len(rows) |-> ParseFloat(Get(rows[i], metric)).n]

\* the correlation of the call is undefined: fewer than two valid pairs, or
\* a column without variance over them
CorrelationUndefined ==
    \/ Len(PairedValues(call.data, call.xMetric, call.yMetric)) < 2
    \/ IsConstant(PairedValues(call.data, call.xMetric, call.yMetric))
    \/ IsConstant(PairedValues(call.data, call.yMetric, call.xMetric))

\* C15: calculateCorrelation never throws; it returns NaN exactly when fewer
\* than two records hold both values present and numeric or a column has zero
\* variance over them, and a coefficient in [-1, 1] otherwise; the
\* correlation of a column of nonzero variance with itself is 1 (both within
\* the tolerance).
C15_NaNExactlyWhenUndefined ==
    (pc = "returned" /\ entry = "calculateCorrelation") =>
        /\ (result.correlation = NaN) <=> CorrelationUndefined
        /\ ~CorrelationUndefined =>
              /\ result.correlation.t = "number"
              /\ Abs(result.correlation.n) <= Scale + Tolerance
        /\ (~CorrelationUndefined /\ call.xMetric = call.yMetric)
              => Abs(result.correlation.n - Scale) <= Tolerance


\* what the specification makes of a cell: the number when the whole text
\* reads as a number, the cell as it is otherwise
WhollyParsed(v) ==
    IF v.t = "string" /\ v # EmptyString /\ ToNumber(v).t = "number" THEN ToNumber(v) ELSE v

\* C21: field standardization turns a text into a number only when the whole
\* text parses as a number; a text of which only a prefix is numeric, such as
\* "12abc", stays a text in the standardized record.
C21_PartialNumbersStayText ==
    Bundled =>
        /\ Len(result.rawData) = Len(given)
        /\ \A i \in 1..Len(given) :
              Get(result.rawData[i], AO) = WhollyParsed(Get(given[i], AO))

\* the first row of a direct call's data that contributes to a record's group
FirstContributing(rec) == GroupRows(call.data, call.field, rec[call.field].s)[1]

\* C22: at state level every aggregated record carries a FIPS equal to the
\* first two characters (padded to 2) of the FIPS of the first row of its
\* group and a Name equal to the group key, whichever rows of the group carry
\* a FIPS or a Name.
C22_StateRecordsCarryFipsAndName ==
    (pc = "returned" /\ entry = "aggregateByField" /\ result.kind = "records"
        /\ call.field = "State Abbreviation") =>
        \A i \in 1..Len(result.records) :
            /\ Get(result.records[i], "FIPS")
                  = Str(PadStart(Substring0(JsString(Get(FirstContributing(result.records[i]),
                                                         "FIPS")), 2), 2))
            /\ Get(result.records[i], "Name") = Get(result.records[i], call.field)

\* the centroids whose distance from a point is a number
MeasuredFrom(point, centroids) ==
    {c \in 1..Len(centroids) : euclideanDistance(point, centroids[c]).t = "number"}

\* label names the lowest-indexed centroid at the least distance from the
\* point; a point no centroid has a distance from keeps label 0
IsNearestLowest(point, centroids, label) ==
    IF MeasuredFrom(point, centroids) = {} THEN label = 0
    ELSE /\ label + 1 \in MeasuredFrom(point, centroids)
         /\ \A c \in MeasuredFrom(point, centroids) :
               /\ euclideanDistance(point, centroids[label + 1]).n
                     <= euclideanDistance(point, centroids[c]).n
               /\ c < label + 1 =>
                     euclideanDistance(point, centroids[label + 1]).n
                        < euclideanDistance(point, centroids[c]).n

\* the points labelled with cluster c
MembersOf(assignments, c) == {i \in 1..Len(assignments) : assignments[i] = c - 1}

\* coordinate d of the mean of the points of a non-empty set of indices
RECURSIVE SumOver(_, _, _)
SumOver(points, members, d) ==
    IF members = {} THEN Num(0)
    ELSE NAdd(points[CHOOSE i \in members : \A j \in members : i <= j][d],
              SumOver(points, members \ {CHOOSE i \in members : \A j \in members : i <= j}, d))

IsMeanOf(centroid, points, members) ==
    \A d \in 1..2 : centroid[d] = NDiv(SumOver(points, members, d), Cardinality(members))

\* C23: every k-means iteration assigns every point to the centroid at the
\* least Euclidean distance, the lowest-indexed one among several at that
\* distance, then replaces the centroid of every cluster that received a
\* point by the mean of its points and leaves the centroid of every cluster
\* that received none unchanged.
C23_IterationAssignsAndUpdates ==
    [][(InLoop /\ pc' = "loop") =>
          /\ \A i \in 1..Len(call.points) :
                IsNearestLowest(call.points[i], locals.centroids, locals'.assignments[i])
          /\ \A c \in 1..Len(locals.centroids) :
                IF MembersOf(locals'.assignments, c) = {}
                THEN locals'.centroids[c] = locals.centroids[c]
                ELSE IsMeanOf(locals'.centroids[c], call.points,
                              MembersOf(locals'.assignments, c))]_vars

\* a pass left one cluster without a point and moved another cluster's
\* centroid to the mean of two different points
C23_EmptyClusterAndMovedCentroid ==
    /\ InLoop
    /\ locals.iterations >= 1
    /\ \E c \in 1..Len(locals.centroids) :
          /\ MembersOf(locals.assignments, c) = {}
          /\ locals.centroids[c] # <<Num(0), Num(0)>>
    /\ \E c \in 1..Len(locals.centroids) :
          /\ Cardinality(MembersOf(locals.assignments, c)) >= 2
          /\ \A i \in 1..Len(call.points) : call.points[i] # locals.centroids[c]

\* the initial centroid indices a stream of random draws chooses for the call
SeededIndices(rnd) == InitialIndices(Len(call.points), call.k, rnd, 1, <<>>)

MetricChanged ==
    /\ dashboard.mounted
    /\ dashboard.dataLoaded
    /\ dashboard'.selectedMetric # dashboard.selectedMetric
    /\ inflight' = inflight

\* C25: every change of the active metric after data is loaded triggers a
\* recomputation of the feature subset, the projection and the clustering
\* over the records held, and only that: processedData and the burden index
\* keep their values and no run of the pipeline is started.
C25_MetricChangeRecomputesOnly ==
    [][MetricChanged =>
          /\ dashboard'.timers
                = Append(dashboard.timers,
                         [data |-> dashboard.processedData,
                          features |-> FeaturesToUse(dashboard'.selectedMetric,
                                                     dashboard.availableMetrics)])
          /\ dashboard'.processedData = dashboard.processedData
          /\ dashboard'.compositeBurdenIndex = dashboard.compositeBurdenIndex
          /\ dashboard'.runs = dashboard.runs]_vars

(* C26: after any sequence of selections, clearing, aggregation changes and
   loads or uploads, every element of selectedIndices is an index of the
   processedData held (0 .. length - 1), and exportData never reads a record
   that does not exist. *)
C26_SelectedIndicesValid ==
    /\ \A j \in 1..Len(dashboard.selectedIndices) :
          dashboard.selectedIndices[j] \in 0..(Len(dashboard.processedData) - 1)
    /\ (locals.fn = "exportData") => ~locals.threw

(* C27: a recalculation scheduled before a newer dataset arrived never
   overwrites that dataset's projection and clusters: whenever no
   recalculation timer is pending (and no recalculation is stuck), pcaData and
   clusters each hold exactly one entry per record of processedData. *)
C27_ProjectionMatchesData ==
    (dashboard.dataLoaded /\ dashboard.timers = <<>> /\ ~dashboard.hung) =>
        /\ Len(dashboard.pcaData) = Len(dashboard.processedData)
        /\ Len(dashboard.clusters) = Len(dashboard.processedData)

(* C28: whenever kMeansClustering returns before the cap of 100 iterations,
   what it returns is a fixed point: every point, duplicates included, is
   assigned to the lowest-indexed nearest centroid among the returned
   centroids. *)
C28_ReturnedStateIsFixedPoint ==
    (KMeansReturned /\ Len(call.points) > 0 /\ locals.iterations < MAX_ITERATIONS) =>
        \A i \in 1..Len(call.points) :
            IsNearestLowest(call.points[i], result.centroids, result.assignments[i])

---------------------------------------------------------------------------
(* performPCA called on its own *)

\* records with both metrics, with a metric missing and with a text cell
ProjectionRecords ==
    { (AO :> Dec(0, 300)) @@ (FI :> Dec(0, 100)),
      (AO :> Dec(0, 500)) @@ (FI :> Str(<<"n", "/", "a">>)),
      (AO :> Dec(0, 200)) }

\* feature subsets of one, two and three metrics
FeatureSubsets == { <<AO>>, <<FI>>, <<AO, FI>>, <<FI, AO, PI>> }

InitProjection ==
    /\ aggregationLevel = "county"
    /\ given = <<>>
    /\ preloadedData = given
    /\ pc = "ready"
    /\ call \in [op : {"performPCA"},
                 data : UNION {[1..n -> ProjectionRecords] : n \in 1..MaxRows},
                 features : FeatureSubsets,
                 rnd : RandomStreams]
    /\ entry = "none"
    /\ result = [kind |-> "none"]
    /\ locals = NoLocals
    /\ dashboard = NoDashboard
    /\ inflight = {}

\* performPCA(data, features)
CallPerformPCA ==
    /\ pc = "ready"
    /\ call.op = "performPCA"
    /\ result' = [kind |-> "projection",
                  pcaResult |-> performPCA(call.data, call.features, call.rnd)]
    /\ pc' = "returned"
    /\ entry' = "performPCA"
    /\ UNCHANGED <<aggregationLevel, given, preloadedData, call, locals, dashboard, inflight>>

NextProjection == CallPerformPCA

SpecProjection == InitProjection /\ [][NextProjection]_vars

(* C29: for every record list and every feature subset of at least one
   feature, a subset of exactly one feature included, performPCA returns
   points whose pc1 and pc2 are defined numbers, never NaN or undefined. *)
C29_ProjectionIsNumeric ==
    (pc = "returned" /\ entry = "performPCA") =>
        \A i \in 1..Len(result.pcaResult) :
            /\ result.pcaResult[i].pc1.t = "number"
            /\ result.pcaResult[i].pc2.t = "number"

---------------------------------------------------------------------------
(* fetchFromBackend, one fetch or one wait per step *)

\* the largest maxRetries a call is made with
MaxRetries == 3

\* what one fetch does: it resolves with a response, whatever its status, or
\* it rejects with an error
FetchOutcomes ==
    { [threw |-> FALSE, ok |-> TRUE, name |-> "Response"],
      [threw |-> FALSE, ok |-> FALSE, name |-> "Response"],
      [threw |-> TRUE, ok |-> FALSE, name |-> "TypeError"],
      [threw |-> TRUE, ok |-> FALSE, name |-> "AbortError"] }

InitFetch ==
    /\ aggregationLevel = "county"
    /\ given = <<>>
    /\ preloadedData = given
    /\ pc = "ready"
    /\ call \in [op : {"fetchFromBackend"}, backendUrl : BOOLEAN,
                 endpoint : {"/health", "/api/process"}, maxRetries : 0..MaxRetries]
    /\ entry = "none"
    /\ result = [kind |-> "none"]
    /\ locals = NoLocals
    /\ dashboard = NoDashboard
    /\ inflight = {}

\* the loop test attempt <= maxRetries, taken with attempt already incremented
AttemptsRemainStrict(attempt, maxRetries) == attempt < maxRetries

AttemptsRemain(attempt, maxRetries) == attempt <= maxRetries

\* attempt++ and the loop test; past the loop, throw lastError || new Error(...)
NextAttempt(l, maxRetries) ==
    IF AttemptsRemain(l.attempt + 1, maxRetries)
    THEN [pc |-> "fetch", result |-> [kind |-> "none"]]
    ELSE [pc |-> "threw",
          result |-> [kind |-> "threw",
                      error |-> IF l.lastError.attempt > 0 THEN l.lastError
                                ELSE [name |-> "Error", attempt |-> 0]]]

\* entry of fetchFromBackend up to the loop
FetchFromBackendStart ==
    /\ pc = "ready"
    /\ call.op = "fetchFromBackend"
    /\ locals' = [fn |-> "fetchFromBackend", attempt |-> 0,
                  lastError |-> [name |-> "null", attempt |-> 0],
                  delay |-> 0, log |-> <<>>]
    /\ IF ~call.backendUrl
       THEN /\ result' = [kind |-> "threw",
                          error |-> [name |-> "Backend URL is not configured", attempt |-> 0]]
            /\ pc' = "threw"
       ELSE /\ pc' = "fetch"
            /\ UNCHANGED result
    /\ entry' = "fetchFromBackend"
    /\ UNCHANGED <<aggregationLevel, given, preloadedData, call, dashboard, inflight>>

\* one pass of the loop body: await fetch(url, fetchOptions); log keeps the
\* requests made, each with what came of it
FetchAttempt ==
    /\ pc = "fetch"
    /\ locals.fn = "fetchFromBackend"
    /\ \E outcome \in FetchOutcomes :
          \E made \in {[locals EXCEPT
                          !.log = Append(@, [url |-> call.endpoint, outcome |-> outcome]),
                          !.lastError = IF outcome.threw
                                        THEN [name |-> outcome.name,
                                              attempt |-> locals.attempt + 1]
                                        ELSE @]} :
             IF ~outcome.threw
             THEN /\ locals' = made
                  /\ result' = [kind |-> "response", ok |-> outcome.ok,
                                attempt |-> locals.attempt + 1]
                  /\ pc' = "returned"
             ELSE IF locals.attempt < call.maxRetries
             THEN /\ locals' = [made EXCEPT !.delay = 1000 * (2 ^ locals.attempt)]
                  /\ pc' = "backoff"
                  /\ UNCHANGED result
             ELSE /\ locals' = [made EXCEPT !.attempt = @ + 1]
                  /\ pc' = NextAttempt(made, call.maxRetries).pc
                  /\ result' = NextAttempt(made, call.maxRetries).result
    /\ UNCHANGED <<aggregationLevel, given, preloadedData, call, entry, dashboard, inflight>>

\* the backoff timer fires: on to the next pass
FetchBackoffElapsed ==
    /\ pc = "backoff"
    /\ locals' = [locals EXCEPT !.attempt = @ + 1, !.delay = 0]
    /\ pc' = NextAttempt(locals, call.maxRetries).pc
    /\ result' = NextAttempt(locals, call.maxRetries).result
    /\ UNCHANGED <<aggregationLevel, given, preloadedData, call, entry, dashboard, inflight>>

NextFetch == FetchFromBackendStart \/ FetchAttempt \/ FetchBackoffElapsed

SpecFetch == InitFetch /\ [][NextFetch]_vars

\* the requests made so far that rejected
Rejected(log) == {a \in 1..Len(log) : log[a].outcome.threw}

(* C30: fetchFromBackend makes at most maxRetries + 1 attempts; it returns
   the response of the first attempt that does not throw and makes no attempt
   after it; it throws the last error only once all maxRetries + 1 attempts
   have failed. *)
C30_RetriesAreBounded ==
    (entry = "fetchFromBackend") =>
        /\ Len(locals.log) <= call.maxRetries + 1
        /\ \A a \in 1..(Len(locals.log) - 1) : a \in Rejected(locals.log)
        /\ (pc = "returned") =>
              /\ locals.log # <<>>
              /\ Len(locals.log) \notin Rejected(locals.log)
              /\ result = [kind |-> "response",
                           ok |-> locals.log[Len(locals.log)].outcome.ok,
                           attempt |-> Len(locals.log)]
        /\ (pc # "returned") => Rejected(locals.log) = 1..Len(locals.log)
        /\ (pc = "threw" /\ call.backendUrl) =>
              /\ Len(locals.log) = call.maxRetries + 1
              /\ result.error = [name |-> locals.log[Len(locals.log)].outcome.name,
                                 attempt |-> Len(locals.log)]
        /\ (pc = "threw" /\ ~call.backendUrl) => locals.log = <<>>

\* a response returned after two attempts that failed
C30_ReturnedAfterFailures ==
    /\ entry = "fetchFromBackend"
    /\ pc = "returned"
    /\ Len(locals.log) = 3
    /\ call.maxRetries = 2
=============================================================================
